---- MODULE Spec2Model ----
(***************************************************************************)
(* Model of the Config <-> Model translator of the Datadog synthetics test *)
(* resource (datadog/resource_datadog_synthetics_test_.go).                *)
(*                                                                         *)
(* Representation.  Enumerated and opaque strings (type, operator,         *)
(* property, username ...) are TLA+ strings, "" being Go's empty string.   *)
(* Strings the code parses or matches character by character (assertion    *)
(* targets, certificate content) are sequences of one-character strings.   *)
(* Byte strings handled by the codec are sequences of 0..255.  An optional *)
(* (pointer or interface) member of an API object is <<>> when nil and     *)
(* <<v>> when set.  Maps obtained from schema.ResourceData carry every     *)
(* key of their schema, unset ones holding the zero value.                 *)
(***************************************************************************)
EXTENDS Integers, Sequences, FiniteSets, TLC

VARIABLES
    pc,              \* "new" before Create has run, "applied" afterwards
    config,          \* the configuration tree as the user authored it
    d,               \* schema.ResourceData: configuration on Create, state afterwards
    syntheticsTest,  \* <<>> or <<m>>: the model last built and sent to the API
    actual,          \* <<>> or <<m>>: the model last returned by the API
    builtFrom,       \* <<>> or <<c>>: what the last build read from d
    firstState,      \* <<>> or <<s>>: the state written by the first flatten
    call,            \* <<>> or <<c>>: a translator function and its arguments
    result,          \* <<>> or <<r>>: what the call of `call` came to
    log,             \* the lines the call of `call` wrote with log.Printf
    poll             \* <<>> or <<p>>: a Create waiting for its test to exist

vars == <<pc, config, d, syntheticsTest, actual, builtFrom, firstState, call, result, log,
          poll>>

(* ---------------------------------------------------------------------- *)
(* Bounds of the model                                                     *)
(* ---------------------------------------------------------------------- *)
MaxAssertions == 2

MaxTextLen == 3

(* ---------------------------------------------------------------------- *)
(* Characters and numbers: strconv and regexp as the translator uses them  *)
(* ---------------------------------------------------------------------- *)
Digits == <<"0", "1", "2", "3", "4", "5", "6", "7", "8", "9">>

IsDigit(c) == \E i \in 1..10 : Digits[i] = c

DigitValue(c) == (CHOOSE i \in 1..10 : Digits[i] = c) - 1

HexLetters == {"a", "b", "c", "d", "e", "f", "A", "B", "C", "D", "E", "F"}

IsHexDigit(c) == IsDigit(c) \/ c \in HexLetters

IsSign(c) == c \in {"+", "-"}

AllDigits(s) == \A i \in 1..Len(s) : IsDigit(s[i])

RECURSIVE DigitsValue(_)
DigitsValue(s) ==
    IF s = <<>> THEN 0
    ELSE 10 * DigitsValue(SubSeq(s, 1, Len(s) - 1)) + DigitValue(s[Len(s)])

RECURSIVE NatToDigits(_)
NatToDigits(n) ==
    IF n < 10 THEN <<Digits[n + 1]>>
    ELSE NatToDigits(n \div 10) \o <<Digits[(n % 10) + 1]>>

Unsigned(s) == IF s # <<>> /\ IsSign(s[1]) THEN Tail(s) ELSE s

IsNegative(s) == s # <<>> /\ s[1] = "-"

\* strconv.Atoi: an optional sign followed by one or more decimal digits.
AtoiOk(s) == Unsigned(s) # <<>> /\ AllDigits(Unsigned(s))

\* The value strconv.Atoi returns; 0 together with the syntax error.
Atoi(s) ==
    IF ~AtoiOk(s) THEN 0
    ELSE IF IsNegative(s) THEN 0 - DigitsValue(Unsigned(s))
    ELSE DigitsValue(Unsigned(s))

\* strconv.Itoa
Itoa(n) == IF n < 0 THEN <<"-">> \o NatToDigits(0 - n) ELSE NatToDigits(n)

DotPositions(s) == {i \in 1..Len(s) : s[i] = "."}

IntPart(s) ==
    IF DotPositions(s) = {} THEN s
    ELSE SubSeq(s, 1, (CHOOSE i \in DotPositions(s) : TRUE) - 1)

FracPart(s) ==
    IF DotPositions(s) = {} THEN <<>>
    ELSE SubSeq(s, (CHOOSE i \in DotPositions(s) : TRUE) + 1, Len(s))

\* strconv.ParseFloat on decimal notation: sign, digits, at most one point,
\* at least one digit.  Exponent, hexadecimal, "inf" and "nan" spellings need
\* letters that no target of TargetStrings contains.
ParseFloatOk(s) ==
    LET u == Unsigned(s)
    IN  /\ Cardinality(DotPositions(u)) <= 1
        /\ AllDigits(IntPart(u))
        /\ AllDigits(FracPart(u))
        /\ Len(IntPart(u)) + Len(FracPart(u)) > 0

RECURSIVE StripTrailingZeros(_)
StripTrailingZeros(s) ==
    IF s # <<>> /\ s[Len(s)] = "0" THEN StripTrailingZeros(SubSeq(s, 1, Len(s) - 1))
    ELSE s

\* A float64 holding a short decimal: (-1)^neg * mant * 10^(-frac), with the
\* fraction digits normalised as the shortest representation requires.
ParseFloat(s) ==
    LET u  == Unsigned(s)
        fr == StripTrailingZeros(FracPart(u))
    IN  [kind |-> "float64",
         neg  |-> IsNegative(s),
         mant |-> DigitsValue(IntPart(u) \o fr),
         frac |-> Len(fr)]

ZeroFloat == [kind |-> "float64", neg |-> FALSE, mant |-> 0, frac |-> 0]

RECURSIVE PadLeft(_, _)
PadLeft(s, n) == IF Len(s) >= n THEN s ELSE PadLeft(<<"0">> \o s, n)

\* strconv.FormatFloat(v, 'f', -1, 64)
FormatFloat(v) ==
    LET ds   == PadLeft(NatToDigits(v.mant), v.frac + 1)
        int  == SubSeq(ds, 1, Len(ds) - v.frac)
        fr   == SubSeq(ds, Len(ds) - v.frac + 1, Len(ds))
        sign == IF v.neg THEN <<"-">> ELSE <<>>
    IN  sign \o int \o (IF v.frac = 0 THEN <<>> ELSE <<".">> \o fr)

\* regexp.MatchString("{{\\s*([^{}]*?)\\s*}}", s): somewhere in s, "{{", then
\* characters other than braces, then "}}".
IsTemplate(s) ==
    \E i \in 1..Len(s) : \E j \in 1..Len(s) :
        /\ i + 2 <= j
        /\ j + 1 <= Len(s)
        /\ s[i] = "{" /\ s[i + 1] = "{"
        /\ s[j] = "}" /\ s[j + 1] = "}"
        /\ \A k \in (i + 2)..(j - 1) : s[k] \notin {"{", "}"}

(* ---------------------------------------------------------------------- *)
(* Assertions: configuration -> model                                      *)
(* ---------------------------------------------------------------------- *)
Set(v) == <<v>>

Has(o) == o # <<>>

Get(o) == o[1]

StringValue(s) == [kind |-> "string", str |-> s]

IntValue(n) == [kind |-> "int", int |-> n]

\* datadogV1.SyntheticsAssertion: one pointer per variant of the union.
EmptySyntheticsAssertion ==
    [SyntheticsAssertionTarget           |-> <<>>,
     SyntheticsAssertionBodyHashTarget   |-> <<>>,
     SyntheticsAssertionJSONPathTarget   |-> <<>>,
     SyntheticsAssertionJSONSchemaTarget |-> <<>>,
     SyntheticsAssertionXPathTarget      |-> <<>>,
     SyntheticsAssertionJavascript       |-> <<>>]

AssertionVariants == DOMAIN EmptySyntheticsAssertion

IntTargetAssertionTypes ==
    {"responseTime", "certificate", "latency", "packetsReceived", "networkHop",
     "grpcHealthcheckStatus"}

\* isTargetOfTypeInt with the operator of a statusCode assertion left out.
isTargetOfTypeIntAnyOperator(assertionType, assertionOperator) ==
    \/ assertionType \in IntTargetAssertionTypes
    \/ assertionType = "statusCode"


isTargetOfTypeInt(assertionType, assertionOperator) ==
    \/ assertionType \in IntTargetAssertionTypes
    \/ /\ assertionType = "statusCode"
       /\ assertionOperator \in {"is", "isNot"}

\* The generic `target` of buildDatadogAssertions: <<>> when none is set.
GenericTarget(assertionType, assertionOperator, v) ==
    IF isTargetOfTypeInt(assertionType, assertionOperator)
    THEN Set(IntValue(Atoi(v)))
    ELSE IF assertionType = "packetLossPercentage"
    THEN Set(IF ParseFloatOk(v) THEN ParseFloat(v) ELSE ZeroFloat)
    ELSE Set(StringValue(v))

\* The `targetvalue` of a targetjsonpath / targetxpath block.
NumericOrTemplateTargetValue(v) ==
    IF IsTemplate(v) THEN Set(StringValue(v))
    ELSE IF ParseFloatOk(v) THEN Set(ParseFloat(v))
    ELSE <<>>

JSONPathTargetValue(operator, v) ==
    IF operator = "isUndefined" THEN <<>>
    ELSE IF operator \in {"lessThan", "moreThan"} THEN NumericOrTemplateTargetValue(v)
    ELSE Set(StringValue(v))

XPathTargetValue(operator, v) ==
    IF operator \in {"lessThan", "moreThan"} THEN NumericOrTemplateTargetValue(v)
    ELSE Set(StringValue(v))

MetaSchemas == {"draft-07", "draft-06"}

OptionalString(v) == IF v # "" THEN Set(v) ELSE <<>>

buildAssertionJavascript(assertionMap) ==
    [Type |-> "javascript", Code |-> assertionMap.code]

buildAssertionJSONSchemaTarget(assertionMap) ==
    [Operator |-> assertionMap.operator,
     Type     |-> assertionMap.type,
     Target   |->
        IF Len(assertionMap.targetjsonschema) > 0
        THEN LET targetMap == assertionMap.targetjsonschema[1]
             IN  Set([JsonSchema |-> Set(targetMap.jsonschema),
                      MetaSchema |-> IF targetMap.metaschema \in MetaSchemas
                                     THEN Set(targetMap.metaschema) ELSE <<>>])
        ELSE <<>>]

buildAssertionJSONPathTarget(assertionMap) ==
    [Operator |-> assertionMap.operator,
     Type     |-> assertionMap.type,
     Property |-> OptionalString(assertionMap.property),
     Target   |->
        IF Len(assertionMap.targetjsonpath) > 0
        THEN LET targetMap == assertionMap.targetjsonpath[1]
             IN  Set([JsonPath         |-> Set(targetMap.jsonpath),
                      Operator         |-> Set(targetMap.operator),
                      TargetValue      |-> JSONPathTargetValue(targetMap.operator,
                                                               targetMap.targetvalue),
                      ElementsOperator |-> Set(targetMap.elementsoperator)])
        ELSE <<>>]

buildAssertionXPathTarget(assertionMap) ==
    [Operator |-> assertionMap.operator,
     Type     |-> assertionMap.type,
     Property |-> OptionalString(assertionMap.property),
     Target   |->
        IF Len(assertionMap.targetxpath) > 0
        THEN LET targetMap == assertionMap.targetxpath[1]
             IN  Set([XPath       |-> Set(targetMap.xpath),
                      Operator    |-> Set(targetMap.operator),
                      TargetValue |-> XPathTargetValue(targetMap.operator,
                                                       targetMap.targetvalue)])
        ELSE <<>>]

buildAssertionTarget(assertionMap) ==
    [Operator     |-> assertionMap.operator,
     Type         |-> assertionMap.type,
     Property     |-> OptionalString(assertionMap.property),
     Target       |-> GenericTarget(assertionMap.type, assertionMap.operator,
                                    assertionMap.target),
     TimingsScope |-> OptionalString(assertionMap.timings_scope)]

\* The chain of buildDatadogAssertions without its validatesJSONPath branch.
AssertionVariantOfWithoutJSONPath(assertionMap) ==
    IF assertionMap.type = "javascript" THEN "SyntheticsAssertionJavascript"
    ELSE IF assertionMap.operator = "validatesJSONSchema"
    THEN "SyntheticsAssertionJSONSchemaTarget"
    ELSE IF assertionMap.operator = "validatesXPath"
    THEN "SyntheticsAssertionXPathTarget"
    ELSE "SyntheticsAssertionTarget"

\* The variant the if / else-if chain of buildDatadogAssertions selects.
AssertionVariantOf(assertionMap) ==
    IF assertionMap.type = "javascript" THEN "SyntheticsAssertionJavascript"
    ELSE IF assertionMap.operator = "validatesJSONSchema"
    THEN "SyntheticsAssertionJSONSchemaTarget"
    ELSE IF assertionMap.operator = "validatesJSONPath"
    THEN "SyntheticsAssertionJSONPathTarget"
    ELSE IF assertionMap.operator = "validatesXPath"
    THEN "SyntheticsAssertionXPathTarget"
    ELSE "SyntheticsAssertionTarget"

\* One iteration of the loop of buildDatadogAssertions.
buildDatadogAssertion(assertionMap) ==
    LET variant == AssertionVariantOf(assertionMap)
        object  ==
            CASE variant = "SyntheticsAssertionJavascript" ->
                    buildAssertionJavascript(assertionMap)
              [] variant = "SyntheticsAssertionJSONSchemaTarget" ->
                    buildAssertionJSONSchemaTarget(assertionMap)
              [] variant = "SyntheticsAssertionJSONPathTarget" ->
                    buildAssertionJSONPathTarget(assertionMap)
              [] variant = "SyntheticsAssertionXPathTarget" ->
                    buildAssertionXPathTarget(assertionMap)
              [] OTHER -> buildAssertionTarget(assertionMap)
    IN  [EmptySyntheticsAssertion EXCEPT ![variant] = Set(object)]

buildDatadogAssertions(attr) ==
    [i \in 1..Len(attr) |-> buildDatadogAssertion(attr[i])]

(* ---------------------------------------------------------------------- *)
(* Assertions: model -> configuration                                      *)
(* ---------------------------------------------------------------------- *)
EmptyMap == <<>>

\* key :> value when the optional member is set, nothing otherwise.
Entry(key, o) == IF Has(o) THEN key :> Get(o) ELSE EmptyMap

\* encoding/json.  A JSON text is the sequence of its lexical tokens: the
\* punctuation, the literals null, true and false, string literals and number
\* literals, the last two carrying their characters.
Token(kind) == [kind |-> kind]

StringToken(s) == [kind |-> "string", str |-> s]

\* The string literal that names a member of an object.
NameToken(k) == [kind |-> "string", name |-> k]

NumberToken(s) == [kind |-> "number", num |-> s]

\* The values an interface{} holds beside string, int and float64.
NilValue == [kind |-> "nil"]

BoolValue(b) == [kind |-> "bool", bool |-> b]

SliceValue(elems) == [kind |-> "slice", elems |-> elems]

MapValue(members) == [kind |-> "map", members |-> members]

\* The member names of the JSON objects of the model, in the byte order
\* json.Marshal sorts map keys by.
SortedMemberNames ==
    <<"a", "b", "failTestOnCannotLocate", "multiLocator", "targetOuterHTML", "type",
      "url", "userLocator", "value", "values">>

SortedKeys(keys) == SelectSeq(SortedMemberNames, LAMBDA k : k \in keys)

\* The kinds json.Marshal has an encoding for; a channel or a function value
\* makes it return an error.
RECURSIVE jsonMarshalOk(_)
jsonMarshalOk(v) ==
    CASE v.kind \in {"nil", "bool", "int", "float64", "string"} -> TRUE
      [] v.kind = "slice" -> \A n \in 1..Len(v.elems) : jsonMarshalOk(v.elems[n])
      [] v.kind = "map"   -> \A k \in DOMAIN v.members : jsonMarshalOk(v.members[k])
      [] OTHER            -> FALSE

\* json.Marshal: no white space, the members of a map in sorted key order.
RECURSIVE jsonMarshal(_)
jsonMarshal(v) ==
    LET RECURSIVE elements(_)
        elements(n) ==
            IF n > Len(v.elems) THEN <<>>
            ELSE (IF n > 1 THEN <<Token(",")>> ELSE <<>>)
                 \o jsonMarshal(v.elems[n]) \o elements(n + 1)
        keys == SortedKeys(DOMAIN v.members)
        RECURSIVE members(_)
        members(n) ==
            IF n > Len(keys) THEN <<>>
            ELSE (IF n > 1 THEN <<Token(",")>> ELSE <<>>)
                 \o <<NameToken(keys[n]), Token(":")>>
                 \o jsonMarshal(v.members[keys[n]]) \o members(n + 1)
    IN  CASE v.kind = "nil"     -> <<Token("null")>>
          [] v.kind = "bool"    -> <<Token(IF v.bool THEN "true" ELSE "false")>>
          [] v.kind = "int"     -> <<NumberToken(Itoa(v.int))>>
          [] v.kind = "float64" -> <<NumberToken(FormatFloat(v))>>
          [] v.kind = "string"  -> <<StringToken(v.str)>>
          [] v.kind = "slice"   -> <<Token("[")>> \o elements(1) \o <<Token("]")>>
          [] v.kind = "map"     -> <<Token("{")>> \o members(1) \o <<Token("}")>>

\* The number literals of JSON: no plus sign, no leading zero, digits on both
\* sides of a point.
jsonNumberOk(s) ==
    LET u == Unsigned(s)
    IN  /\ ParseFloatOk(s)
        /\ s[1] # "+"
        /\ Len(IntPart(u)) > 0
        /\ Len(IntPart(u)) > 1 => IntPart(u)[1] # "0"
        /\ DotPositions(u) # {} => FracPart(u) # <<>>

RECURSIVE SkipSpace(_, _)
SkipSpace(t, n) ==
    IF n <= Len(t) /\ t[n] = Token(" ") THEN SkipSpace(t, n + 1) ELSE n

SyntaxError == [ok |-> FALSE]

Decoded(value, next) == [ok |-> TRUE, value |-> value, next |-> next]

\* The decoder of encoding/json reading into an interface{}: a number becomes
\* a float64, an object a map in which the last of several members of one
\* name wins, an array a slice.  jsonValue reads the value that starts at
\* token n0 and says where it ends.
RECURSIVE jsonValue(_, _)
jsonValue(t, n0) ==
    LET n == SkipSpace(t, n0)
        RECURSIVE elements(_, _)
        elements(m0, acc) ==
            LET e == jsonValue(t, m0)
                m == IF e.ok THEN SkipSpace(t, e.next) ELSE 0
            IN  IF ~e.ok \/ m > Len(t) THEN SyntaxError
                ELSE IF t[m].kind = "," THEN elements(m + 1, Append(acc, e.value))
                ELSE IF t[m].kind = "]" THEN Decoded(SliceValue(Append(acc, e.value)), m + 1)
                ELSE SyntaxError
        RECURSIVE members(_, _)
        members(m0, acc) ==
            LET k == SkipSpace(t, m0)
                c == SkipSpace(t, k + 1)
            IN  IF c > Len(t) \/ "name" \notin DOMAIN t[k] \/ t[c].kind # ":" THEN SyntaxError
                ELSE LET e == jsonValue(t, c + 1)
                         m == IF e.ok THEN SkipSpace(t, e.next) ELSE 0
                         a == (t[k].name :> e.value) @@ acc
                     IN  IF ~e.ok \/ m > Len(t) THEN SyntaxError
                         ELSE IF t[m].kind = "," THEN members(m + 1, a)
                         ELSE IF t[m].kind = "}" THEN Decoded(MapValue(a), m + 1)
                         ELSE SyntaxError
        closed(kind) == LET m == SkipSpace(t, n + 1) IN m <= Len(t) /\ t[m].kind = kind
    IN  IF n > Len(t) THEN SyntaxError
        ELSE CASE t[n].kind = "null"   -> Decoded(NilValue, n + 1)
               [] t[n].kind = "true"   -> Decoded(BoolValue(TRUE), n + 1)
               [] t[n].kind = "false"  -> Decoded(BoolValue(FALSE), n + 1)
               [] t[n].kind = "number" ->
                    IF jsonNumberOk(t[n].num) THEN Decoded(ParseFloat(t[n].num), n + 1)
                    ELSE SyntaxError
               [] t[n].kind = "string" ->
                    IF "str" \in DOMAIN t[n] THEN Decoded(StringValue(t[n].str), n + 1)
                    ELSE Decoded(StringValue(t[n].name), n + 1)
               [] t[n].kind = "["      ->
                    IF closed("]") THEN Decoded(SliceValue(<<>>), SkipSpace(t, n + 1) + 1)
                    ELSE elements(n + 1, <<>>)
               [] t[n].kind = "{"      ->
                    IF closed("}") THEN Decoded(MapValue(EmptyMap), SkipSpace(t, n + 1) + 1)
                    ELSE members(n + 1, EmptyMap)
               [] OTHER                -> SyntaxError

\* A whole text: one value and nothing but white space after it.
jsonUnmarshal(t) ==
    LET r == jsonValue(t, 1)
    IN  IF r.ok /\ SkipSpace(t, r.next) > Len(t) THEN r ELSE SyntaxError

\* A default branch that gives up instead of serialising.
convertToStringDefaultEmpty(i) ==
    CASE i.kind = "bool"    -> IF i.bool THEN <<"t", "r", "u", "e">>
                               ELSE <<"f", "a", "l", "s", "e">>
      [] i.kind = "int"     -> Itoa(i.int)
      [] i.kind = "float64" -> FormatFloat(i)
      [] i.kind = "string"  -> i.str
      [] OTHER              -> <<>>

convertToString(i) ==
    CASE i.kind = "bool"    -> IF i.bool THEN <<"t", "r", "u", "e">>
                               ELSE <<"f", "a", "l", "s", "e">>
      [] i.kind = "int"     -> Itoa(i.int)
      [] i.kind = "float64" -> FormatFloat(i)
      [] i.kind = "string"  -> i.str
      [] OTHER              -> IF jsonMarshalOk(i) THEN jsonMarshal(i) ELSE <<>>

\* The targetvalue branch of buildTerraformAssertions: a string, a float64,
\* or the "unrecognized targetvalue type" error.
TargetValueOk(o) == Has(o) => Get(o).kind \in {"string", "float64"}

TargetValueEntry(o) ==
    IF ~Has(o) THEN EmptyMap
    ELSE IF Get(o).kind = "string" THEN "targetvalue" :> Get(o).str
    ELSE "targetvalue" :> FormatFloat(Get(o))

flattenAssertionTarget(assertionTarget) ==
    ("operator" :> assertionTarget.Operator)
    @@ Entry("property", assertionTarget.Property)
    @@ (IF Has(assertionTarget.Target)
        THEN "target" :> convertToString(Get(assertionTarget.Target))
        ELSE EmptyMap)
    @@ ("type" :> assertionTarget.Type)
    @@ Entry("timings_scope", assertionTarget.TimingsScope)

flattenAssertionJSONSchemaTarget(assertionTarget) ==
    ("operator" :> assertionTarget.Operator)
    @@ (IF Has(assertionTarget.Target)
        THEN LET target == Get(assertionTarget.Target)
             IN  "targetjsonschema" :>
                    <<Entry("jsonschema", target.JsonSchema)
                      @@ Entry("metaschema", target.MetaSchema)>>
        ELSE EmptyMap)
    @@ ("type" :> assertionTarget.Type)

flattenAssertionJSONPathTarget(assertionTarget) ==
    ("operator" :> assertionTarget.Operator)
    @@ Entry("property", assertionTarget.Property)
    @@ (IF Has(assertionTarget.Target)
        THEN LET target == Get(assertionTarget.Target)
             IN  "targetjsonpath" :>
                    <<Entry("jsonpath", target.JsonPath)
                      @@ Entry("operator", target.Operator)
                      @@ TargetValueEntry(target.TargetValue)
                      @@ Entry("elementsoperator", target.ElementsOperator)>>
        ELSE EmptyMap)
    @@ ("type" :> assertionTarget.Type)

flattenAssertionXPathTarget(assertionTarget) ==
    ("operator" :> assertionTarget.Operator)
    @@ Entry("property", assertionTarget.Property)
    @@ (IF Has(assertionTarget.Target)
        THEN LET target == Get(assertionTarget.Target)
             IN  "targetxpath" :>
                    <<Entry("xpath", target.XPath)
                      @@ Entry("operator", target.Operator)
                      @@ TargetValueEntry(target.TargetValue)>>
        ELSE EmptyMap)
    @@ ("type" :> assertionTarget.Type)

flattenAssertionBodyHashTarget(assertionTarget) ==
    ("operator" :> assertionTarget.Operator)
    @@ (IF Has(assertionTarget.Target)
        THEN "target" :> convertToString(Get(assertionTarget.Target))
        ELSE EmptyMap)
    @@ ("type" :> assertionTarget.Type)

flattenAssertionJavascript(assertionTarget) ==
    ("type" :> assertionTarget.Type) @@ ("code" :> assertionTarget.Code)

\* One iteration of the loop of buildTerraformAssertions.
buildTerraformAssertion(assertion) ==
    IF Has(assertion.SyntheticsAssertionTarget)
    THEN flattenAssertionTarget(Get(assertion.SyntheticsAssertionTarget))
    ELSE IF Has(assertion.SyntheticsAssertionJSONSchemaTarget)
    THEN flattenAssertionJSONSchemaTarget(Get(assertion.SyntheticsAssertionJSONSchemaTarget))
    ELSE IF Has(assertion.SyntheticsAssertionJSONPathTarget)
    THEN flattenAssertionJSONPathTarget(Get(assertion.SyntheticsAssertionJSONPathTarget))
    ELSE IF Has(assertion.SyntheticsAssertionXPathTarget)
    THEN flattenAssertionXPathTarget(Get(assertion.SyntheticsAssertionXPathTarget))
    ELSE IF Has(assertion.SyntheticsAssertionBodyHashTarget)
    THEN flattenAssertionBodyHashTarget(Get(assertion.SyntheticsAssertionBodyHashTarget))
    ELSE IF Has(assertion.SyntheticsAssertionJavascript)
    THEN flattenAssertionJavascript(Get(assertion.SyntheticsAssertionJavascript))
    ELSE EmptyMap

\* Whether iteration i returns the "unrecognized targetvalue type" error.
AssertionFlattenFails(assertion) ==
    /\ ~Has(assertion.SyntheticsAssertionTarget)
    /\ ~Has(assertion.SyntheticsAssertionJSONSchemaTarget)
    /\ \/ /\ Has(assertion.SyntheticsAssertionJSONPathTarget)
          /\ Has(Get(assertion.SyntheticsAssertionJSONPathTarget).Target)
          /\ ~TargetValueOk(Get(Get(assertion.SyntheticsAssertionJSONPathTarget).Target).TargetValue)
       \/ /\ ~Has(assertion.SyntheticsAssertionJSONPathTarget)
          /\ Has(assertion.SyntheticsAssertionXPathTarget)
          /\ Has(Get(assertion.SyntheticsAssertionXPathTarget).Target)
          /\ ~TargetValueOk(Get(Get(assertion.SyntheticsAssertionXPathTarget).Target).TargetValue)

\* buildTerraformAssertions returns (localAssertions, err).
buildTerraformAssertionsErr(actualAssertions) ==
    \E i \in 1..Len(actualAssertions) : AssertionFlattenFails(actualAssertions[i])

buildTerraformAssertions(actualAssertions) ==
    [i \in 1..Len(actualAssertions) |->
        IF \E j \in 1..i : AssertionFlattenFails(actualAssertions[j])
        THEN EmptyMap
        ELSE buildTerraformAssertion(actualAssertions[i])]

(* ---------------------------------------------------------------------- *)
(* Basic auth                                                              *)
(* ---------------------------------------------------------------------- *)
\* datadogV1.SyntheticsBasicAuth: one pointer per credential scheme.
EmptySyntheticsBasicAuth ==
    [SyntheticsBasicAuthWeb         |-> <<>>,
     SyntheticsBasicAuthSigv4       |-> <<>>,
     SyntheticsBasicAuthNTLM        |-> <<>>,
     SyntheticsBasicAuthDigest      |-> <<>>,
     SyntheticsBasicAuthOauthClient |-> <<>>,
     SyntheticsBasicAuthOauthROP    |-> <<>>]

BasicAuthVariants == DOMAIN EmptySyntheticsBasicAuth

TokenApiAuthentications == {"header", "body"}

\* NewSyntheticsBasicAuthOauthTokenApiAuthenticationFromValue, the zero value
\* standing for the error.
TokenApiAuthenticationValue(v) == IF v \in TokenApiAuthentications THEN v ELSE ""

buildBasicAuthWeb(requestBasicAuth) ==
    [Password |-> requestBasicAuth.password,
     Username |-> requestBasicAuth.username,
     Type     |-> "web"]

buildBasicAuthSigv4(requestBasicAuth) ==
    [AccessKey    |-> requestBasicAuth.access_key,
     SecretKey    |-> requestBasicAuth.secret_key,
     Type         |-> "sigv4",
     Region       |-> Set(requestBasicAuth.region),
     ServiceName  |-> Set(requestBasicAuth.service_name),
     SessionToken |-> Set(requestBasicAuth.session_token)]

buildBasicAuthNTLM(requestBasicAuth) ==
    [Type        |-> "ntlm",
     Username    |-> Set(requestBasicAuth.username),
     Password    |-> Set(requestBasicAuth.password),
     Domain      |-> Set(requestBasicAuth.domain),
     Workstation |-> Set(requestBasicAuth.workstation)]

buildBasicAuthOauthClient(requestBasicAuth) ==
    [AccessTokenUrl         |-> requestBasicAuth.access_token_url,
     ClientId               |-> requestBasicAuth.client_id,
     ClientSecret           |-> requestBasicAuth.client_secret,
     TokenApiAuthentication |->
        TokenApiAuthenticationValue(requestBasicAuth.token_api_authentication),
     Type                   |-> "oauth-client",
     Audience               |-> OptionalString(requestBasicAuth.audience),
     Resource               |-> OptionalString(requestBasicAuth.resource),
     Scope                  |-> OptionalString(requestBasicAuth.scope)]

buildBasicAuthOauthROP(requestBasicAuth) ==
    [AccessTokenUrl         |-> requestBasicAuth.access_token_url,
     Password               |-> requestBasicAuth.password,
     TokenApiAuthentication |->
        TokenApiAuthenticationValue(requestBasicAuth.token_api_authentication),
     Type                   |-> "oauth-rop",
     Username               |-> requestBasicAuth.username,
     Audience               |-> OptionalString(requestBasicAuth.audience),
     Resource               |-> OptionalString(requestBasicAuth.resource),
     Scope                  |-> OptionalString(requestBasicAuth.scope),
     ClientId               |-> Set(requestBasicAuth.client_id),
     ClientSecret           |-> Set(requestBasicAuth.client_secret)]

buildBasicAuthDigest(requestBasicAuth) ==
    [Password |-> requestBasicAuth.password,
     Type     |-> "digest",
     Username |-> requestBasicAuth.username]

\* buildDatadogBasicAuth choosing by the type alone.
buildDatadogBasicAuthByType(requestBasicAuth) ==
    IF requestBasicAuth.type = "web"
    THEN [EmptySyntheticsBasicAuth EXCEPT
            !.SyntheticsBasicAuthWeb = Set(buildBasicAuthWeb(requestBasicAuth))]
    ELSE IF requestBasicAuth.type = "sigv4"
    THEN [EmptySyntheticsBasicAuth EXCEPT
            !.SyntheticsBasicAuthSigv4 = Set(buildBasicAuthSigv4(requestBasicAuth))]
    ELSE IF requestBasicAuth.type = "ntlm"
    THEN [EmptySyntheticsBasicAuth EXCEPT
            !.SyntheticsBasicAuthNTLM = Set(buildBasicAuthNTLM(requestBasicAuth))]
    ELSE IF requestBasicAuth.type = "oauth-client"
    THEN [EmptySyntheticsBasicAuth EXCEPT
            !.SyntheticsBasicAuthOauthClient =
                Set(buildBasicAuthOauthClient(requestBasicAuth))]
    ELSE IF requestBasicAuth.type = "oauth-rop"
    THEN [EmptySyntheticsBasicAuth EXCEPT
            !.SyntheticsBasicAuthOauthROP = Set(buildBasicAuthOauthROP(requestBasicAuth))]
    ELSE IF requestBasicAuth.type = "digest"
    THEN [EmptySyntheticsBasicAuth EXCEPT
            !.SyntheticsBasicAuthDigest = Set(buildBasicAuthDigest(requestBasicAuth))]
    ELSE EmptySyntheticsBasicAuth

buildDatadogBasicAuth(requestBasicAuth) ==
    IF requestBasicAuth.type = "web" /\ requestBasicAuth.username # ""
    THEN [EmptySyntheticsBasicAuth EXCEPT
            !.SyntheticsBasicAuthWeb = Set(buildBasicAuthWeb(requestBasicAuth))]
    ELSE IF /\ requestBasicAuth.type = "sigv4"
            /\ requestBasicAuth.access_key # ""
            /\ requestBasicAuth.secret_key # ""
    THEN [EmptySyntheticsBasicAuth EXCEPT
            !.SyntheticsBasicAuthSigv4 = Set(buildBasicAuthSigv4(requestBasicAuth))]
    ELSE IF requestBasicAuth.type = "ntlm"
    THEN [EmptySyntheticsBasicAuth EXCEPT
            !.SyntheticsBasicAuthNTLM = Set(buildBasicAuthNTLM(requestBasicAuth))]
    ELSE IF requestBasicAuth.type = "oauth-client"
    THEN [EmptySyntheticsBasicAuth EXCEPT
            !.SyntheticsBasicAuthOauthClient =
                Set(buildBasicAuthOauthClient(requestBasicAuth))]
    ELSE IF requestBasicAuth.type = "oauth-rop"
    THEN [EmptySyntheticsBasicAuth EXCEPT
            !.SyntheticsBasicAuthOauthROP = Set(buildBasicAuthOauthROP(requestBasicAuth))]
    ELSE IF requestBasicAuth.type = "digest"
    THEN [EmptySyntheticsBasicAuth EXCEPT
            !.SyntheticsBasicAuthDigest = Set(buildBasicAuthDigest(requestBasicAuth))]
    ELSE EmptySyntheticsBasicAuth

\* m with the entries of `entries` assigned, as a sequence of localAuth[k] = v.
Assign(m, entries) == entries @@ m

flattenBasicAuthWeb(basicAuthWeb) ==
    ("username" :> basicAuthWeb.Username)
    @@ ("password" :> basicAuthWeb.Password)
    @@ ("type" :> "web")

flattenBasicAuthSigv4(basicAuthSigv4) ==
    ("access_key" :> basicAuthSigv4.AccessKey)
    @@ ("secret_key" :> basicAuthSigv4.SecretKey)
    @@ Entry("region", basicAuthSigv4.Region)
    @@ Entry("session_token", basicAuthSigv4.SessionToken)
    @@ Entry("service_name", basicAuthSigv4.ServiceName)
    @@ ("type" :> "sigv4")

\* flattenBasicAuthNTLM that also writes the user name where sigv4 keeps its
\* access key.
flattenBasicAuthNTLMWithAccessKey(basicAuthNtlm) ==
    Entry("username", basicAuthNtlm.Username)
    @@ Entry("access_key", basicAuthNtlm.Username)
    @@ Entry("password", basicAuthNtlm.Password)
    @@ Entry("domain", basicAuthNtlm.Domain)
    @@ Entry("workstation", basicAuthNtlm.Workstation)
    @@ ("type" :> "ntlm")


flattenBasicAuthNTLM(basicAuthNtlm) ==
    Entry("username", basicAuthNtlm.Username)
    @@ Entry("password", basicAuthNtlm.Password)
    @@ Entry("domain", basicAuthNtlm.Domain)
    @@ Entry("workstation", basicAuthNtlm.Workstation)
    @@ ("type" :> "ntlm")

flattenBasicAuthOauthClient(basicAuthOauthClient) ==
    ("access_token_url" :> basicAuthOauthClient.AccessTokenUrl)
    @@ ("client_id" :> basicAuthOauthClient.ClientId)
    @@ ("client_secret" :> basicAuthOauthClient.ClientSecret)
    @@ ("token_api_authentication" :> basicAuthOauthClient.TokenApiAuthentication)
    @@ Entry("audience", basicAuthOauthClient.Audience)
    @@ Entry("scope", basicAuthOauthClient.Scope)
    @@ Entry("resource", basicAuthOauthClient.Resource)
    @@ ("type" :> "oauth-client")

flattenBasicAuthOauthROP(basicAuthOauthROP) ==
    ("access_token_url" :> basicAuthOauthROP.AccessTokenUrl)
    @@ Entry("client_id", basicAuthOauthROP.ClientId)
    @@ Entry("client_secret", basicAuthOauthROP.ClientSecret)
    @@ ("token_api_authentication" :> basicAuthOauthROP.TokenApiAuthentication)
    @@ Entry("audience", basicAuthOauthROP.Audience)
    @@ Entry("scope", basicAuthOauthROP.Scope)
    @@ Entry("resource", basicAuthOauthROP.Resource)
    @@ ("username" :> basicAuthOauthROP.Username)
    @@ ("password" :> basicAuthOauthROP.Password)
    @@ ("type" :> "oauth-rop")

flattenBasicAuthDigest(basicAuthDigest) ==
    ("username" :> basicAuthDigest.Username)
    @@ ("password" :> basicAuthDigest.Password)
    @@ ("type" :> "digest")

\* The six consecutive `if` statements of buildTerraformBasicAuth, each
\* assigning into the same localAuth map.
buildTerraformBasicAuth(basicAuth) ==
    LET a0 == EmptyMap
        a1 == IF Has(basicAuth.SyntheticsBasicAuthWeb)
              THEN Assign(a0, flattenBasicAuthWeb(Get(basicAuth.SyntheticsBasicAuthWeb)))
              ELSE a0
        a2 == IF Has(basicAuth.SyntheticsBasicAuthSigv4)
              THEN Assign(a1, flattenBasicAuthSigv4(Get(basicAuth.SyntheticsBasicAuthSigv4)))
              ELSE a1
        a3 == IF Has(basicAuth.SyntheticsBasicAuthNTLM)
              THEN Assign(a2, flattenBasicAuthNTLM(Get(basicAuth.SyntheticsBasicAuthNTLM)))
              ELSE a2
        a4 == IF Has(basicAuth.SyntheticsBasicAuthOauthClient)
              THEN Assign(a3, flattenBasicAuthOauthClient(
                                  Get(basicAuth.SyntheticsBasicAuthOauthClient)))
              ELSE a3
        a5 == IF Has(basicAuth.SyntheticsBasicAuthOauthROP)
              THEN Assign(a4, flattenBasicAuthOauthROP(
                                  Get(basicAuth.SyntheticsBasicAuthOauthROP)))
              ELSE a4
    IN  IF Has(basicAuth.SyntheticsBasicAuthDigest)
        THEN Assign(a5, flattenBasicAuthDigest(Get(basicAuth.SyntheticsBasicAuthDigest)))
        ELSE a5

(* ---------------------------------------------------------------------- *)
(* Client certificate                                                      *)
(* ---------------------------------------------------------------------- *)
HashLen == 64

isCertHash(content) ==
    /\ Len(content) = HashLen
    /\ \A i \in 1..Len(content) : IsHexDigit(content[i])

LowerHexDigits ==
    <<"0", "1", "2", "3", "4", "5", "6", "7", "8", "9", "a", "b", "c", "d", "e", "f">>

CharCodes ==
    Digits \o <<"a", "b", "c", "d", "e", "f", "A", "B", "C", "D", "E", "F", "g", "-">>

CharCode(c) ==
    IF \E i \in 1..Len(CharCodes) : CharCodes[i] = c
    THEN CHOOSE i \in 1..Len(CharCodes) : CharCodes[i] = c
    ELSE Len(CharCodes) + 1

\* utils.ConvertToSha256: the lower-case hexadecimal text of a 256-bit digest
\* of the content.  The digest itself is a stand-in that keeps the properties
\* the translator relies on: it is a function of the content alone and has
\* the shape isCertHash recognises.
ConvertToSha256(content) ==
    [i \in 1..HashLen |->
        LowerHexDigits[
            (((IF content = <<>> THEN 0
              ELSE 7 * CharCode(content[((i - 1) % Len(content)) + 1]))
             + i + Len(content)) % 16) + 1]]

\* getCertificateStateValue that digests whatever it is given.
getCertificateStateValueAlwaysHashing(content) == ConvertToSha256(content)


getCertificateStateValue(content) ==
    IF isCertHash(content) THEN content ELSE ConvertToSha256(content)

\* buildCertificateItem without the isCertHash test.
buildCertificateItemSubmittingDigests(clientCert) ==
    [Content  |-> IF clientCert.content # <<>> THEN Set(clientCert.content) ELSE <<>>,
     Filename |-> IF clientCert.filename # "" THEN Set(clientCert.filename) ELSE <<>>]

\* One SyntheticsTestRequestCertificateItem built from a cert or key block.
buildCertificateItem(clientCert) ==
    [Content  |-> IF clientCert.content # <<>> /\ ~isCertHash(clientCert.content)
                  THEN Set(clientCert.content) ELSE <<>>,
     Filename |-> IF clientCert.filename # "" THEN Set(clientCert.filename) ELSE <<>>]

buildDatadogRequestCertificates(requestClientCertificate) ==
    [Cert |-> Set(buildCertificateItem(requestClientCertificate.cert[1])),
     Key  |-> Set(buildCertificateItem(requestClientCertificate.key[1]))]

\* GetCert().GetFilename() and GetKey().GetFilename(): "" when unset.
GetFilename(item) == IF Has(item) /\ Has(Get(item).Filename) THEN Get(Get(item).Filename) ELSE ""

buildTerraformRequestCertificates(clientCertificate, oldClientCertificates) ==
    LET old(block) ==
            IF Len(oldClientCertificates) > 0
            THEN "content" :> getCertificateStateValue(oldClientCertificates[1][block][1].content)
            ELSE EmptyMap
    IN  [cert |-> <<("filename" :> GetFilename(clientCertificate.Cert)) @@ old("cert")>>,
         key  |-> <<("filename" :> GetFilename(clientCertificate.Key)) @@ old("key")>>]

(* ---------------------------------------------------------------------- *)
(* Codec of the compressed gRPC descriptors: zlib, then base64             *)
(* ---------------------------------------------------------------------- *)
RECURSIVE AdlerA(_)
AdlerA(b) == IF b = <<>> THEN 1 ELSE (AdlerA(SubSeq(b, 1, Len(b) - 1)) + b[Len(b)]) % 65521

RECURSIVE AdlerB(_)
AdlerB(b) == IF b = <<>> THEN 0 ELSE (AdlerB(SubSeq(b, 1, Len(b) - 1)) + AdlerA(b)) % 65521

\* The Adler-32 checksum, most significant byte first.
Adler32(b) ==
    <<AdlerB(b) \div 256, AdlerB(b) % 256, AdlerA(b) \div 256, AdlerA(b) % 256>>

\* The header zlib.NewWriter emits: deflate with a 32K window, default level.
ZlibHeader == <<120, 156>>

\* zlib.Writer Write + Close: header, the deflate stream, the checksum.  The
\* deflate stream is written in its "stored" encoding: one final block that
\* carries the length, the complemented length and the bytes.
zlibWrite(b) ==
    ZlibHeader
    \o <<1, Len(b) % 256, Len(b) \div 256, 255 - (Len(b) % 256), 255 - (Len(b) \div 256)>>
    \o b
    \o Adler32(b)

\* zlib.NewReader fails (and returns a nil reader) on a bad header.
zlibHeaderOk(z) ==
    /\ Len(z) >= 2
    /\ z[1] % 16 = 8
    /\ z[1] \div 16 <= 7
    /\ (z[1] * 256 + z[2]) % 31 = 0
    /\ (z[2] \div 32) % 2 = 0

\* zlibReadAll that stops one byte short of the stored block.
zlibReadAllShort(z) ==
    IF Len(z) < 7 \/ z[3] # 1 THEN <<>>
    ELSE LET n == z[4] + 256 * z[5]
         IN  SubSeq(z, 8, 6 + n)

\* io.ReadAll on the reader, its error dropped: the bytes inflated before the
\* stream ended or turned out corrupt.
zlibReadAll(z) ==
    IF Len(z) < 7 \/ z[3] # 1 THEN <<>>
    ELSE LET n == z[4] + 256 * z[5]
         IN  IF z[6] + 256 * z[7] # 65535 - n THEN <<>>
             ELSE SubSeq(z, 8, IF Len(z) < 7 + n THEN Len(z) ELSE 7 + n)

Base64Alphabet ==
    <<"A", "B", "C", "D", "E", "F", "G", "H", "I", "J", "K", "L", "M", "N", "O", "P",
      "Q", "R", "S", "T", "U", "V", "W", "X", "Y", "Z", "a", "b", "c", "d", "e", "f",
      "g", "h", "i", "j", "k", "l", "m", "n", "o", "p", "q", "r", "s", "t", "u", "v",
      "w", "x", "y", "z", "0", "1", "2", "3", "4", "5", "6", "7", "8", "9", "+", "/">>

Base64Char(n) == Base64Alphabet[n + 1]

IsBase64Char(c) == \E i \in 1..64 : Base64Alphabet[i] = c

Base64Value(c) == (CHOOSE i \in 1..64 : Base64Alphabet[i] = c) - 1

\* b64.StdEncoding.EncodeToString
RECURSIVE EncodeToString(_)
EncodeToString(b) ==
    IF b = <<>> THEN <<>>
    ELSE IF Len(b) = 1
    THEN <<Base64Char(b[1] \div 4), Base64Char((b[1] % 4) * 16), "=", "=">>
    ELSE IF Len(b) = 2
    THEN <<Base64Char(b[1] \div 4),
           Base64Char((b[1] % 4) * 16 + b[2] \div 16),
           Base64Char((b[2] % 16) * 4), "=">>
    ELSE <<Base64Char(b[1] \div 4),
           Base64Char((b[1] % 4) * 16 + b[2] \div 16),
           Base64Char((b[2] % 16) * 4 + b[3] \div 64),
           Base64Char(b[3] % 64)>>
         \o EncodeToString(SubSeq(b, 4, Len(b)))

\* b64.StdEncoding.DecodeString, its error dropped: the bytes decoded before
\* the input ended or an illegal character was met.
RECURSIVE DecodeString(_)
DecodeString(s) ==
    IF Len(s) < 4 \/ ~IsBase64Char(s[1]) \/ ~IsBase64Char(s[2]) THEN <<>>
    ELSE LET v1 == Base64Value(s[1])
             v2 == Base64Value(s[2])
             b1 == v1 * 4 + v2 \div 16
         IN  IF s[3] = "=" /\ s[4] = "="
             THEN IF Len(s) = 4 THEN <<b1>> ELSE <<>>
             ELSE IF ~IsBase64Char(s[3]) THEN <<>>
             ELSE LET v3 == Base64Value(s[3])
                      b2 == (v2 % 16) * 16 + v3 \div 4
                  IN  IF s[4] = "="
                      THEN IF Len(s) = 4 THEN <<b1, b2>> ELSE <<>>
                      ELSE IF ~IsBase64Char(s[4]) THEN <<>>
                      ELSE <<b1, b2, (v3 % 4) * 64 + Base64Value(s[4])>>
                           \o DecodeString(SubSeq(s, 5, Len(s)))

compressAndEncodeValue(value) == EncodeToString(zlibWrite(value))

\* <<text>>, or <<>> when zl is nil and the deferred zl.Close() panics.
decompressAndDecodeValue(value) ==
    LET decodedValue == DecodeString(value)
    IN  IF zlibHeaderOk(decodedValue) THEN Set(zlibReadAll(decodedValue)) ELSE <<>>

(* ---------------------------------------------------------------------- *)
(* schema.ResourceData                                                     *)
(* ---------------------------------------------------------------------- *)
\* The value a map written by d.Set reads back with: every key of the
\* schema, the zero value where the map carried none.
Field(m, key, zero) == IF key \in DOMAIN m THEN m[key] ELSE zero

NormaliseJSONSchema(m) ==
    [jsonschema |-> Field(m, "jsonschema", ""),
     metaschema |-> Field(m, "metaschema", "")]

NormaliseJSONPath(m) ==
    [jsonpath         |-> Field(m, "jsonpath", ""),
     operator         |-> Field(m, "operator", ""),
     targetvalue      |-> Field(m, "targetvalue", <<>>),
     elementsoperator |-> Field(m, "elementsoperator", "")]

NormaliseXPath(m) ==
    [xpath       |-> Field(m, "xpath", ""),
     operator    |-> Field(m, "operator", ""),
     targetvalue |-> Field(m, "targetvalue", <<>>)]

NormaliseAssertion(m) ==
    [type             |-> Field(m, "type", ""),
     operator         |-> Field(m, "operator", ""),
     property         |-> Field(m, "property", ""),
     target           |-> Field(m, "target", <<>>),
     code             |-> Field(m, "code", ""),
     timings_scope    |-> Field(m, "timings_scope", ""),
     targetjsonschema |->
        LET blocks == Field(m, "targetjsonschema", <<>>)
        IN  [i \in 1..Len(blocks) |-> NormaliseJSONSchema(blocks[i])],
     targetjsonpath   |->
        LET blocks == Field(m, "targetjsonpath", <<>>)
        IN  [i \in 1..Len(blocks) |-> NormaliseJSONPath(blocks[i])],
     targetxpath      |->
        LET blocks == Field(m, "targetxpath", <<>>)
        IN  [i \in 1..Len(blocks) |-> NormaliseXPath(blocks[i])]]

NormaliseAssertions(localAssertions) ==
    [i \in 1..Len(localAssertions) |-> NormaliseAssertion(localAssertions[i])]

BasicAuthKeys ==
    {"type", "username", "password", "access_key", "secret_key", "region",
     "service_name", "session_token", "domain", "workstation", "access_token_url",
     "audience", "resource", "scope", "token_api_authentication", "client_id",
     "client_secret"}

NormaliseBasicAuth(m) == [key \in BasicAuthKeys |-> Field(m, key, "")]

NormaliseCertificateItem(m) ==
    [content |-> Field(m, "content", <<>>), filename |-> Field(m, "filename", "")]

NormaliseCertificate(m) ==
    [cert |-> [i \in 1..Len(m.cert) |-> NormaliseCertificateItem(m.cert[i])],
     key  |-> [i \in 1..Len(m.key) |-> NormaliseCertificateItem(m.key[i])]]

NormaliseRequest(m) == [plain_proto_file |-> Field(m, "plain_proto_file", <<>>)]

(* ---------------------------------------------------------------------- *)
(* The API test: build, the API's answer, flatten                          *)
(* ---------------------------------------------------------------------- *)
buildDatadogSyntheticsAPITest(data) ==
    [Config |->
        [Request |->
            [CompressedProtoFile |->
                IF data.request_definition[1].plain_proto_file # <<>>
                THEN Set(compressAndEncodeValue(data.request_definition[1].plain_proto_file))
                ELSE <<>>,
             BasicAuth |->
                IF Len(data.request_basicauth) > 0
                THEN Set(buildDatadogBasicAuth(data.request_basicauth[1]))
                ELSE <<>>,
             Certificate |->
                IF Len(data.request_client_certificate) > 0
                THEN Set(buildDatadogRequestCertificates(data.request_client_certificate[1]))
                ELSE <<>>],
         Assertions |->
            IF Len(data.assertion) > 0 THEN buildDatadogAssertions(data.assertion)
            ELSE <<>>]]

buildTerraformTestRequest(request) ==
    IF Has(request.CompressedProtoFile)
    THEN "plain_proto_file" :> Get(decompressAndDecodeValue(Get(request.CompressedProtoFile)))
    ELSE EmptyMap

\* The deferred zl.Close() of decompressAndDecodeValue panics on a nil reader.
FlattenPanics(model) ==
    /\ Has(model.Config.Request.CompressedProtoFile)
    /\ ~Has(decompressAndDecodeValue(Get(model.Config.Request.CompressedProtoFile)))

\* updateSyntheticsAPITestLocalState: the contents of d when it returns.
updateSyntheticsAPITestLocalState(data, model) ==
    LET request == model.Config.Request
    IN  [request_definition |-> <<NormaliseRequest(buildTerraformTestRequest(request))>>,
         request_basicauth |->
            IF Has(request.BasicAuth)
            THEN <<NormaliseBasicAuth(buildTerraformBasicAuth(Get(request.BasicAuth)))>>
            ELSE data.request_basicauth,
         request_client_certificate |->
            IF Has(request.Certificate)
            THEN <<NormaliseCertificate(
                     buildTerraformRequestCertificates(Get(request.Certificate),
                                                       data.request_client_certificate))>>
            ELSE data.request_client_certificate,
         assertion |->
            IF buildTerraformAssertionsErr(model.Config.Assertions)
            THEN data.assertion
            ELSE NormaliseAssertions(buildTerraformAssertions(model.Config.Assertions))]

\* encoding/json, sending a model and reading it back: a number comes back
\* as a float64 whatever Go type it was sent as.
JSONValue(v) ==
    IF v.kind = "int"
    THEN [kind |-> "float64",
          neg  |-> v.int < 0,
          mant |-> IF v.int < 0 THEN 0 - v.int ELSE v.int,
          frac |-> 0]
    ELSE v

JSONAssertion(assertion) ==
    IF Has(assertion.SyntheticsAssertionTarget)
    THEN LET t == Get(assertion.SyntheticsAssertionTarget)
         IN  [assertion EXCEPT !.SyntheticsAssertionTarget =
                Set([t EXCEPT !.Target = IF Has(t.Target) THEN Set(JSONValue(Get(t.Target)))
                                         ELSE <<>>])]
    ELSE assertion

RotatedSecret == "rotated"

\* The credential with every secret member replaced, as after a change made
\* on the remote side.
RotateSecrets(basicAuth) ==
    [variant \in BasicAuthVariants |->
        IF ~Has(basicAuth[variant]) THEN <<>>
        ELSE LET o == Get(basicAuth[variant])
             IN  Set(CASE variant = "SyntheticsBasicAuthWeb" ->
                            [o EXCEPT !.Password = RotatedSecret]
                       [] variant = "SyntheticsBasicAuthSigv4" ->
                            [o EXCEPT !.SecretKey = RotatedSecret]
                       [] variant = "SyntheticsBasicAuthNTLM" ->
                            [o EXCEPT !.Password = Set(RotatedSecret)]
                       [] variant = "SyntheticsBasicAuthDigest" ->
                            [o EXCEPT !.Password = RotatedSecret]
                       [] variant = "SyntheticsBasicAuthOauthClient" ->
                            [o EXCEPT !.ClientSecret = RotatedSecret]
                       [] OTHER ->
                            [o EXCEPT !.Password = RotatedSecret,
                                      !.ClientSecret = Set(RotatedSecret)])]

\* A certificate as the API returns it: the content is write-only.
WithoutContent(certificate) ==
    [Cert |-> Set([Get(certificate.Cert) EXCEPT !.Content = <<>>]),
     Key  |-> Set([Get(certificate.Key) EXCEPT !.Content = <<>>])]

\* What GetAPITest / UpdateAPITest may answer for a test sent as `model`.
\* The remote side is free to echo the secrets or not; a credential object
\* with no variant carries nothing and does not come back.
ApiReturns(model) ==
    LET request == model.Config.Request
    IN  { [Config |->
            [Request |->
                [CompressedProtoFile |-> request.CompressedProtoFile,
                 BasicAuth |->
                    IF ~Has(request.BasicAuth) \/ Get(request.BasicAuth) = EmptySyntheticsBasicAuth
                    THEN <<>>
                    ELSE IF rotated THEN Set(RotateSecrets(Get(request.BasicAuth)))
                    ELSE request.BasicAuth,
                 Certificate |->
                    IF ~Has(request.Certificate) \/ echoed THEN request.Certificate
                    ELSE Set(WithoutContent(Get(request.Certificate)))],
             Assertions |->
                [i \in 1..Len(model.Config.Assertions) |->
                    JSONAssertion(model.Config.Assertions[i])]]]
          : rotated \in BOOLEAN, echoed \in BOOLEAN }

\* What Update reads from d: the configuration, except that a certificate
\* content whose StateFunc value equals the stored one shows no difference
\* and is read from the state, where it is a digest.
PlannedItem(configItem, stateItem) ==
    [configItem EXCEPT !.content =
        IF ConvertToSha256(configItem.content) = stateItem.content
        THEN stateItem.content ELSE configItem.content]

Plan(cfg, data) ==
    [cfg EXCEPT !.request_client_certificate =
        IF Len(cfg.request_client_certificate) > 0 /\ Len(data.request_client_certificate) > 0
        THEN <<[cert |-> <<PlannedItem(cfg.request_client_certificate[1].cert[1],
                                       data.request_client_certificate[1].cert[1])>>,
                key  |-> <<PlannedItem(cfg.request_client_certificate[1].key[1],
                                       data.request_client_certificate[1].key[1])>>]>>
        ELSE cfg.request_client_certificate]

(* ---------------------------------------------------------------------- *)
(* Configurations                                                          *)
(* ---------------------------------------------------------------------- *)
Str42 == <<"4", "2">>

StrAbc == <<"a", "b", "c">>

StrTemplate == <<"{", "{", " ", "X", " ", "}", "}">>

StrDecimal == <<"1", ".", "5", "0">>

TargetStrings == {Str42, StrAbc, StrTemplate, StrDecimal}

EmptyAssertionMap ==
    [type |-> "", operator |-> "", property |-> "", target |-> <<>>, code |-> "",
     timings_scope |-> "", targetjsonschema |-> <<>>, targetjsonpath |-> <<>>,
     targetxpath |-> <<>>]

GenericPairs ==
    {<<"responseTime", "lessThan">>, <<"statusCode", "is">>, <<"statusCode", "matches">>,
     <<"packetLossPercentage", "lessThan">>}

JSONPathBlock(operator, targetvalue) ==
    <<[jsonpath |-> "$.a", operator |-> operator, targetvalue |-> targetvalue,
       elementsoperator |-> "firstElementMatches"]>>

XPathBlock(operator, targetvalue) ==
    <<[xpath |-> "//a", operator |-> operator, targetvalue |-> targetvalue]>>

GenericAssertions ==
    { [EmptyAssertionMap EXCEPT !.type = p[1], !.operator = p[2], !.target = t]
        : p \in GenericPairs, t \in TargetStrings }
    \cup
    { [EmptyAssertionMap EXCEPT !.type = "header", !.operator = "contains",
                                !.property = "content-type", !.target = StrAbc],
      [EmptyAssertionMap EXCEPT !.type = "responseTime", !.operator = "lessThan",
                                !.timings_scope = "withoutDNS", !.target = Str42],
      [EmptyAssertionMap EXCEPT !.type = "body", !.operator = "contains",
                                !.target = Str42,
                                !.targetjsonpath = JSONPathBlock("is", StrAbc)] }

JSONPathAssertions ==
    { [EmptyAssertionMap EXCEPT !.type = "body", !.operator = "validatesJSONPath",
                                !.targetjsonpath = JSONPathBlock(p[1], p[2])]
        : p \in {<<"lessThan", Str42>>, <<"lessThan", StrAbc>>, <<"lessThan", StrTemplate>>,
                 <<"is", StrAbc>>, <<"isUndefined", Str42>>} }
    \cup
    { [EmptyAssertionMap EXCEPT !.type = "body", !.operator = "validatesJSONPath",
                                !.target = Str42,
                                !.targetjsonpath = JSONPathBlock("moreThan", StrDecimal)] }

XPathAssertions ==
    { [EmptyAssertionMap EXCEPT !.type = "body", !.operator = "validatesXPath",
                                !.targetxpath = XPathBlock("moreThan", t)]
        : t \in {StrDecimal, StrAbc} }

JSONSchemaAssertions ==
    { [EmptyAssertionMap EXCEPT !.type = "body", !.operator = "validatesJSONSchema",
                                !.targetjsonschema =
                                    <<[jsonschema |-> "{}", metaschema |-> "draft-07"]>>] }

JavascriptAssertions ==
    { [EmptyAssertionMap EXCEPT !.type = "javascript", !.code = "return true;"] }

AssertionMaps ==
    GenericAssertions \cup JSONPathAssertions \cup XPathAssertions
    \cup JSONSchemaAssertions \cup JavascriptAssertions

RECURSIVE ListsUpTo(_, _)
ListsUpTo(S, n) ==
    IF n = 0 THEN {<<>>}
    ELSE LET shorter == ListsUpTo(S, n - 1)
         IN  shorter \cup {Append(l, x) : l \in {k \in shorter : Len(k) = n - 1}, x \in S}

EmptyBasicAuthMap == [key \in BasicAuthKeys |-> ""]

BasicAuthTypes == {"web", "sigv4", "ntlm", "oauth-client", "oauth-rop", "digest"}

BasicAuthMaps ==
    { [EmptyBasicAuthMap EXCEPT
         !.type = type, !.username = username, !.password = secret,
         !.access_key = access_key, !.secret_key = secret, !.client_secret = secret,
         !.region = "eu", !.domain = "corp", !.access_token_url = "https://token",
         !.client_id = "id", !.token_api_authentication = "header", !.scope = scope]
        : type \in BasicAuthTypes, username \in {"", "user"}, secret \in {"", "S3cret"},
          access_key \in {"", "AKIA"}, scope \in {"", "read"} }

HexString(c, n) == [i \in 1..n |-> c]

ContentStrings ==
    { <<>>,
      <<"-", "-", "-", "-", "-", "B", "E", "G", "I", "N">>,
      HexString("a", HashLen),
      HexString("F", HashLen),
      HexString("a", HashLen - 1),
      HexString("a", HashLen + 1),
      HexString("a", HashLen - 1) \o <<"g">> }

CertificateMaps ==
    { [cert |-> <<[content |-> c, filename |-> f]>>,
       key  |-> <<[content |-> k, filename |-> "Provided in Terraform config"]>>]
        : c \in ContentStrings, k \in ContentStrings, f \in {"", "cert.pem"} }

TextBytes == {0, 97, 169, 195}

Texts == ListsUpTo(TextBytes, MaxTextLen)

EmptyConfig ==
    [request_definition         |-> <<[plain_proto_file |-> <<>>]>>,
     request_basicauth          |-> <<>>,
     request_client_certificate |-> <<>>,
     assertion                  |-> <<>>]

\* The configurations explored: one that uses a single family of attributes.
Configs ==
    { [EmptyConfig EXCEPT !.assertion = l] : l \in ListsUpTo(AssertionMaps, MaxAssertions) }
    \cup { [EmptyConfig EXCEPT !.request_basicauth = <<m>>] : m \in BasicAuthMaps }
    \cup { [EmptyConfig EXCEPT !.request_client_certificate = <<m>>] : m \in CertificateMaps }
    \cup { [EmptyConfig EXCEPT !.request_definition = <<[plain_proto_file |-> t]>>]
            : t \in Texts }

(* ---------------------------------------------------------------------- *)
(* The resource                                                            *)
(* ---------------------------------------------------------------------- *)
Init ==
    /\ pc = "new"
    /\ config \in Configs
    /\ d = config
    /\ syntheticsTest = <<>>
    /\ actual = <<>>
    /\ builtFrom = <<>>
    /\ firstState = <<>>
    /\ call = <<>>
    /\ result = <<>>
    /\ log = <<>>
    /\ poll = <<>>

\* The state d holds when a handler that built `model` and was answered
\* `response` returns.
Flattened(data, response) ==
    IF FlattenPanics(response) THEN data
    ELSE updateSyntheticsAPITestLocalState(data, response)

\* resourceDatadogSyntheticsTestCreate, the API answering.
Create ==
    /\ pc = "new"
    /\ LET model == buildDatadogSyntheticsAPITest(d)
       IN  /\ syntheticsTest' = Set(model)
           /\ \E response \in ApiReturns(model) :
                /\ actual' = Set(response)
                /\ d' = Flattened(d, response)
    /\ builtFrom' = Set(d)
    /\ firstState' = Set(d')
    /\ pc' = "applied"
    /\ UNCHANGED <<config, call, result, log, poll>>

\* resourceDatadogSyntheticsTestRead, the API answering.
Read ==
    /\ pc = "applied"
    /\ \E response \in ApiReturns(Get(syntheticsTest)) :
        /\ actual' = Set(response)
        /\ d' = Flattened(d, response)
    /\ UNCHANGED <<pc, config, syntheticsTest, builtFrom, firstState>>
    /\ UNCHANGED <<call, result, log, poll>>

\* resourceDatadogSyntheticsTestUpdate, the API answering.
Update ==
    /\ pc = "applied"
    /\ LET planned == Plan(config, d)
           model   == buildDatadogSyntheticsAPITest(planned)
       IN  /\ syntheticsTest' = Set(model)
           /\ \E response \in ApiReturns(model) :
                /\ actual' = Set(response)
                /\ d' = Flattened(planned, response)
           /\ builtFrom' = Set(planned)
    /\ UNCHANGED <<pc, config, firstState, call, result, log, poll>>

Next == Create \/ Read \/ Update

Spec == Init /\ [][Next]_vars

(* ---------------------------------------------------------------------- *)
(* Properties                                                              *)
(* ---------------------------------------------------------------------- *)
Applied == Has(actual) /\ Has(syntheticsTest) /\ Has(builtFrom)

BuiltAssertionMaps == IF Has(builtFrom) THEN Get(builtFrom).assertion ELSE <<>>

BuiltAssertions == IF Has(syntheticsTest) THEN Get(syntheticsTest).Config.Assertions ELSE <<>>

IsGeneric(m) ==
    /\ m.type # "javascript"
    /\ m.operator \notin {"validatesJSONSchema", "validatesJSONPath", "validatesXPath"}

NumericForcing(m) ==
    \/ m.type \in {"responseTime", "certificate", "latency", "packetsReceived",
                   "networkHop", "grpcHealthcheckStatus", "packetLossPercentage"}
    \/ m.type = "statusCode" /\ m.operator \in {"is", "isNot"}

IsNumeral(v) == ParseFloatOk(v)

SameText(a, b) ==
    \/ a = b
    \/ IsNumeral(a) /\ IsNumeral(b) /\ ParseFloat(a) = ParseFloat(b)

\* The fields of an assertion map that the model has a place for: no field of
\* another variant, and where a number is forced, a numeral or a template.
Representable(m) ==
    /\ IsGeneric(m) =>
        /\ m.targetjsonschema = <<>> /\ m.targetjsonpath = <<>> /\ m.targetxpath = <<>>
        /\ NumericForcing(m) => IsNumeral(m.target) \/ IsTemplate(m.target)
    /\ ~IsGeneric(m) => m.target = <<>>
    /\ \A i \in 1..Len(m.targetjsonpath) :
        LET b == m.targetjsonpath[i]
        IN  /\ b.operator = "isUndefined" => b.targetvalue = <<>>
            /\ b.operator \in {"lessThan", "moreThan"} =>
                    IsNumeral(b.targetvalue) \/ IsTemplate(b.targetvalue)
    /\ \A i \in 1..Len(m.targetxpath) :
        LET b == m.targetxpath[i]
        IN  b.operator \in {"lessThan", "moreThan"} =>
                IsNumeral(b.targetvalue) \/ IsTemplate(b.targetvalue)

SameTargetBlocks(a, b) ==
    /\ Len(a) = Len(b)
    /\ \A i \in 1..Len(a) :
        /\ DOMAIN a[i] = DOMAIN b[i]
        /\ \A k \in DOMAIN a[i] :
            IF k = "targetvalue" THEN SameText(a[i][k], b[i][k]) ELSE a[i][k] = b[i][k]

SameAssertion(a, b) ==
    /\ a.type = b.type
    /\ a.operator = b.operator
    /\ a.property = b.property
    /\ SameText(a.target, b.target)
    /\ a.timings_scope = b.timings_scope
    /\ a.code = b.code
    /\ SameTargetBlocks(a.targetjsonschema, b.targetjsonschema)
    /\ SameTargetBlocks(a.targetjsonpath, b.targetjsonpath)
    /\ SameTargetBlocks(a.targetxpath, b.targetxpath)

\* C1: flatten(build(C)) reproduces C: the assertion list written to the
\* state has the length and order of the configured one and, for every
\* assertion the model can represent, equal type, operator, property, target,
\* timings_scope, code, targetjsonschema, targetjsonpath and targetxpath.
C1_RoundTrip ==
    Applied =>
        /\ Len(d.assertion) = Len(config.assertion)
        /\ \A i \in 1..Len(config.assertion) :
            Representable(config.assertion[i]) =>
                SameAssertion(config.assertion[i], d.assertion[i])

BasicAuthSecretKeys == {"password", "secret_key", "client_secret"}

CertificateBlocks == {"cert", "key"}

\* C2: after a flatten every position of the state whose secret the
\* configuration sets holds the configured value or a digest (or nothing),
\* never a value that came with the model response.
C2_SecretNonLeakage ==
    Applied =>
        /\ \A i \in 1..Len(d.request_basicauth) : \A k \in BasicAuthSecretKeys :
            config.request_basicauth[i][k] # "" =>
                d.request_basicauth[i][k] \in {"", config.request_basicauth[i][k]}
        /\ \A i \in 1..Len(d.request_client_certificate) : \A b \in CertificateBlocks :
            LET content == d.request_client_certificate[i][b][1].content
            IN  \/ isCertHash(content)
                \/ content = config.request_client_certificate[i][b][1].content

StoredContents(data) ==
    [i \in 1..Len(data.request_client_certificate) |->
        [b \in CertificateBlocks |-> data.request_client_certificate[i][b][1].content]]

\* C3: getCertificateStateValue is idempotent on every content the resource
\* meets, and after any number of build -> flatten cycles the certificate and
\* key content in the state is the one the first flatten stored.
C3_DigestStability ==
    /\ \A i \in 1..Len(d.request_client_certificate) : \A b \in CertificateBlocks :
        \A c \in {config.request_client_certificate[i][b][1].content,
                  d.request_client_certificate[i][b][1].content} :
            getCertificateStateValue(getCertificateStateValue(c))
                = getCertificateStateValue(c)
    /\ Has(firstState) => StoredContents(d) = StoredContents(Get(firstState))

\* A later cycle: Update built from a stored digest of raw content, and the
\* state still holds what the first flatten stored.
C3_Witness ==
    /\ Applied
    /\ Len(config.request_client_certificate) = 1
    /\ ~isCertHash(config.request_client_certificate[1].cert[1].content)
    /\ isCertHash(Get(builtFrom).request_client_certificate[1].cert[1].content)
    /\ StoredContents(d) = StoredContents(Get(firstState))
    /\ d.request_client_certificate[1].cert[1].content
        = ConvertToSha256(config.request_client_certificate[1].cert[1].content)

IsHexText(content) ==
    \A i \in 1..Len(content) :
        content[i] \in {"0", "1", "2", "3", "4", "5", "6", "7", "8", "9",
                        "a", "b", "c", "d", "e", "f", "A", "B", "C", "D", "E", "F"}

GenuinelyNew(content) == content # <<>> /\ ~(Len(content) = 64 /\ IsHexText(content))

ItemSubmittedAsClaimed(item, block) ==
    /\ Has(item.Content) <=> GenuinelyNew(block.content)
    /\ Has(item.Content) => Get(item.Content) = block.content
    /\ Has(item.Filename) <=> block.filename # ""
    /\ Has(item.Filename) => Get(item.Filename) = block.filename

\* C4: build submits the cert (key) content iff it is non-empty and not
\* 64 hexadecimal characters, and the filename whenever it is non-empty.
C4_OnlyNewContentSubmitted ==
    Applied =>
        \A i \in 1..Len(Get(builtFrom).request_client_certificate) :
            LET certificate == Get(Get(syntheticsTest).Config.Request.Certificate)
                blocks      == Get(builtFrom).request_client_certificate[i]
            IN  /\ ItemSubmittedAsClaimed(Get(certificate.Cert), blocks.cert[1])
                /\ ItemSubmittedAsClaimed(Get(certificate.Key), blocks.key[1])

\* A digest-shaped cert content held back beside a raw key content sent.
C4_Witness ==
    /\ Applied
    /\ Len(Get(builtFrom).request_client_certificate) = 1
    /\ isCertHash(Get(builtFrom).request_client_certificate[1].cert[1].content)
    /\ ~Has(Get(Get(Get(syntheticsTest).Config.Request.Certificate).Cert).Content)
    /\ Has(Get(Get(Get(syntheticsTest).Config.Request.Certificate).Cert).Filename)
    /\ Has(Get(Get(Get(syntheticsTest).Config.Request.Certificate).Key).Content)

BuiltBasicAuthMaps == IF Has(builtFrom) THEN Get(builtFrom).request_basicauth ELSE <<>>

ExpectedAssertionVariant(m) ==
    CASE m.type = "javascript"              -> "SyntheticsAssertionJavascript"
      [] m.type # "javascript" /\ m.operator = "validatesJSONSchema"
                                            -> "SyntheticsAssertionJSONSchemaTarget"
      [] m.type # "javascript" /\ m.operator = "validatesJSONPath"
                                            -> "SyntheticsAssertionJSONPathTarget"
      [] m.type # "javascript" /\ m.operator = "validatesXPath"
                                            -> "SyntheticsAssertionXPathTarget"
      [] OTHER                              -> "SyntheticsAssertionTarget"

ExpectedBasicAuthVariant(type) ==
    CASE type = "web"          -> "SyntheticsBasicAuthWeb"
      [] type = "sigv4"        -> "SyntheticsBasicAuthSigv4"
      [] type = "ntlm"         -> "SyntheticsBasicAuthNTLM"
      [] type = "oauth-client" -> "SyntheticsBasicAuthOauthClient"
      [] type = "oauth-rop"    -> "SyntheticsBasicAuthOauthROP"
      [] type = "digest"       -> "SyntheticsBasicAuthDigest"

OnlyPopulated(union, variant) ==
    /\ Has(union[variant])
    /\ \A other \in DOMAIN union \ {variant} : ~Has(union[other])

NonePopulated(union) == \A variant \in DOMAIN union : ~Has(union[variant])

\* The schemes whose branch of buildDatadogBasicAuth asks for non-empty fields.
GuardFieldsEmpty(m) ==
    \/ m.type = "web" /\ m.username = ""
    \/ m.type = "sigv4" /\ (m.access_key = "" \/ m.secret_key = "")

AssertionsBuiltExclusively ==
    /\ Len(BuiltAssertions) = Len(BuiltAssertionMaps)
    /\ \A i \in 1..Len(BuiltAssertionMaps) :
        LET variant == ExpectedAssertionVariant(BuiltAssertionMaps[i])
        IN  /\ OnlyPopulated(BuiltAssertions[i], variant)
            /\ Get(BuiltAssertions[i][variant]).Type = BuiltAssertionMaps[i].type

C5_WitnessAssertions ==
    /\ Applied
    /\ \E i \in 1..Len(BuiltAssertionMaps) :
        /\ BuiltAssertionMaps[i].operator = "validatesJSONPath"
        /\ Has(BuiltAssertions[i].SyntheticsAssertionJSONPathTarget)
    /\ \E i \in 1..Len(BuiltAssertionMaps) :
        /\ BuiltAssertionMaps[i].type = "statusCode"
        /\ Has(BuiltAssertions[i].SyntheticsAssertionTarget)

BasicAuthVariantKeys(variant) ==
    CASE variant = "SyntheticsBasicAuthWeb"   -> {"type", "username", "password"}
      [] variant = "SyntheticsBasicAuthSigv4" ->
            {"type", "access_key", "secret_key", "region", "session_token", "service_name"}
      [] variant = "SyntheticsBasicAuthNTLM"  ->
            {"type", "username", "password", "domain", "workstation"}
      [] variant = "SyntheticsBasicAuthOauthClient" ->
            {"type", "access_token_url", "token_api_authentication", "audience",
             "client_id", "client_secret", "resource", "scope"}
      [] variant = "SyntheticsBasicAuthOauthROP" ->
            {"type", "access_token_url", "token_api_authentication", "audience",
             "client_id", "client_secret", "resource", "scope", "username", "password"}
      [] variant = "SyntheticsBasicAuthDigest" -> {"type", "username", "password"}

BasicAuthDiscriminator(variant) ==
    CASE variant = "SyntheticsBasicAuthWeb"         -> "web"
      [] variant = "SyntheticsBasicAuthSigv4"       -> "sigv4"
      [] variant = "SyntheticsBasicAuthNTLM"        -> "ntlm"
      [] variant = "SyntheticsBasicAuthOauthClient" -> "oauth-client"
      [] variant = "SyntheticsBasicAuthOauthROP"    -> "oauth-rop"
      [] variant = "SyntheticsBasicAuthDigest"      -> "digest"

AssertionVariantKeys(variant) ==
    CASE variant = "SyntheticsAssertionTarget" ->
            {"type", "operator", "property", "target", "timings_scope"}
      [] variant = "SyntheticsAssertionBodyHashTarget" -> {"type", "operator", "target"}
      [] variant = "SyntheticsAssertionJSONSchemaTarget" ->
            {"type", "operator", "targetjsonschema"}
      [] variant = "SyntheticsAssertionJSONPathTarget" ->
            {"type", "operator", "property", "targetjsonpath"}
      [] variant = "SyntheticsAssertionXPathTarget" ->
            {"type", "operator", "property", "targetxpath"}
      [] variant = "SyntheticsAssertionJavascript" -> {"type", "code"}

AssertionKeys == DOMAIN EmptyAssertionMap

ActiveVariant(union) == CHOOSE variant \in DOMAIN union : Has(union[variant])

ReturnedBasicAuth == IF Has(actual) THEN Get(actual).Config.Request.BasicAuth ELSE <<>>

ReturnedAssertions == IF Has(actual) THEN Get(actual).Config.Assertions ELSE <<>>

\* C6: what flatten writes for a credential or an assertion holds a value
\* only under the keys of the model's active variant, and the "type" of a
\* credential is the discriminator of that variant.
C6_VariantExclusivityOnFlatten ==
    /\ Has(ReturnedBasicAuth) =>
        LET variant == ActiveVariant(Get(ReturnedBasicAuth))
        IN  /\ \A k \in BasicAuthKeys \ BasicAuthVariantKeys(variant) :
                d.request_basicauth[1][k] = ""
            /\ d.request_basicauth[1].type = BasicAuthDiscriminator(variant)
    /\ Has(actual) =>
        /\ Len(d.assertion) = Len(ReturnedAssertions)
        /\ \A i \in 1..Len(ReturnedAssertions) :
            \A k \in AssertionKeys \ AssertionVariantKeys(ActiveVariant(ReturnedAssertions[i])) :
                d.assertion[i][k] = EmptyAssertionMap[k]

\* An ntlm credential flattened with its own fields.
C6_Witness ==
    /\ Has(ReturnedBasicAuth)
    /\ Has(Get(ReturnedBasicAuth).SyntheticsBasicAuthNTLM)
    /\ d.request_basicauth[1].type = "ntlm"
    /\ d.request_basicauth[1].username = "user"
    /\ d.request_basicauth[1].domain = "corp"

\* A JSONPath assertion configured with a stray target, flattened without it.
C6_WitnessAssertion ==
    /\ Has(actual)
    /\ \E i \in 1..Len(ReturnedAssertions) :
        /\ Has(ReturnedAssertions[i].SyntheticsAssertionJSONPathTarget)
        /\ config.assertion[i].target # <<>>
        /\ d.assertion[i].target = <<>>
        /\ d.assertion[i].targetjsonpath # <<>>

BuiltGenericTarget(i) == Get(BuiltAssertions[i].SyntheticsAssertionTarget).Target

BuiltJSONPathTargetValue(i) ==
    Get(Get(BuiltAssertions[i].SyntheticsAssertionJSONPathTarget).Target).TargetValue

BuiltXPathTargetValue(i) ==
    Get(Get(BuiltAssertions[i].SyntheticsAssertionXPathTarget).Target).TargetValue

ComparesNumbers(operator) == operator \in {"lessThan", "moreThan"}

\* C7: a target value of the form {{ token }} reaches the model as the
\* unchanged string under every pair that forces a number: the `target` of an
\* integer-forcing pair or of packetLossPercentage, and the `targetvalue` of
\* a targetjsonpath / targetxpath block whose operator is lessThan or
\* moreThan.
C7_TemplatePassthrough ==
    Applied =>
        \A i \in 1..Len(BuiltAssertionMaps) :
            LET m == BuiltAssertionMaps[i]
            IN  /\ IsGeneric(m) /\ NumericForcing(m) /\ IsTemplate(m.target) =>
                    BuiltGenericTarget(i) = <<[kind |-> "string", str |-> m.target]>>
                /\ /\ m.type # "javascript" /\ m.operator = "validatesJSONPath"
                   /\ Len(m.targetjsonpath) > 0
                   /\ ComparesNumbers(m.targetjsonpath[1].operator)
                   /\ IsTemplate(m.targetjsonpath[1].targetvalue)
                   => BuiltJSONPathTargetValue(i)
                        = <<[kind |-> "string", str |-> m.targetjsonpath[1].targetvalue]>>
                /\ /\ m.type # "javascript" /\ m.operator = "validatesXPath"
                   /\ Len(m.targetxpath) > 0
                   /\ ComparesNumbers(m.targetxpath[1].operator)
                   /\ IsTemplate(m.targetxpath[1].targetvalue)
                   => BuiltXPathTargetValue(i)
                        = <<[kind |-> "string", str |-> m.targetxpath[1].targetvalue]>>

IntegerForcing(m) ==
    \/ m.type \in {"responseTime", "certificate", "latency", "packetsReceived",
                   "networkHop", "grpcHealthcheckStatus"}
    \/ m.type = "statusCode" /\ m.operator = "is"
    \/ m.type = "statusCode" /\ m.operator = "isNot"

\* C8: the target of a generic assertion is an integer exactly under the
\* pairs of the table; there "42" becomes 42; packetLossPercentage gives a
\* float; every other pair keeps the configured string.
C8_NumericCoercionTable ==
    Applied =>
        \A i \in 1..Len(BuiltAssertionMaps) :
            LET m == BuiltAssertionMaps[i]
            IN  IsGeneric(m) =>
                    /\ Has(BuiltGenericTarget(i))
                    /\ Get(BuiltGenericTarget(i)).kind = "int" <=> IntegerForcing(m)
                    /\ IntegerForcing(m) /\ m.target = <<"4", "2">> =>
                            BuiltGenericTarget(i) = <<[kind |-> "int", int |-> 42]>>
                    /\ ~IntegerForcing(m) /\ m.type = "packetLossPercentage" =>
                            Get(BuiltGenericTarget(i)).kind = "float64"
                    /\ ~IntegerForcing(m) /\ m.type # "packetLossPercentage" =>
                            BuiltGenericTarget(i) = <<[kind |-> "string", str |-> m.target]>>

\* "42" built as 42 under statusCode / is beside "42" kept as a string under
\* statusCode / matches.
C8_Witness ==
    /\ Applied
    /\ Len(BuiltAssertionMaps) = 2
    /\ BuiltAssertionMaps[1].type = "statusCode" /\ BuiltAssertionMaps[1].operator = "is"
    /\ BuiltAssertionMaps[1].target = <<"4", "2">>
    /\ BuiltGenericTarget(1) = <<[kind |-> "int", int |-> 42]>>
    /\ BuiltAssertionMaps[2].type = "statusCode" /\ BuiltAssertionMaps[2].operator = "matches"
    /\ BuiltGenericTarget(2) = <<[kind |-> "string", str |-> <<"4", "2">>]>>

\* C9: a target value that is neither a numeral nor a template, under a pair
\* that forces a number, leaves the assertion without a target value.
C9_UnparsableLeftUnset ==
    Applied =>
        \A i \in 1..Len(BuiltAssertionMaps) :
            LET m == BuiltAssertionMaps[i]
            IN  /\ /\ IsGeneric(m) /\ NumericForcing(m)
                   /\ ~IsNumeral(m.target) /\ ~IsTemplate(m.target)
                   => ~Has(BuiltGenericTarget(i))
                /\ /\ m.type # "javascript" /\ m.operator = "validatesJSONPath"
                   /\ Len(m.targetjsonpath) > 0
                   /\ ComparesNumbers(m.targetjsonpath[1].operator)
                   /\ ~IsNumeral(m.targetjsonpath[1].targetvalue)
                   /\ ~IsTemplate(m.targetjsonpath[1].targetvalue)
                   => ~Has(BuiltJSONPathTargetValue(i))
                /\ /\ m.type # "javascript" /\ m.operator = "validatesXPath"
                   /\ Len(m.targetxpath) > 0
                   /\ ComparesNumbers(m.targetxpath[1].operator)
                   /\ ~IsNumeral(m.targetxpath[1].targetvalue)
                   /\ ~IsTemplate(m.targetxpath[1].targetvalue)
                   => ~Has(BuiltXPathTargetValue(i))

ConfiguredText == config.request_definition[1].plain_proto_file

\* C10: decompressAndDecodeValue(compressAndEncodeValue(T)) = T for the
\* configured text T, the empty one included, and the text the state holds
\* after build and flatten is the configured one.
C10_CodecRoundTrip ==
    /\ decompressAndDecodeValue(compressAndEncodeValue(ConfiguredText)) = <<ConfiguredText>>
    /\ Applied => d.request_definition[1].plain_proto_file = ConfiguredText

\* A two-byte UTF-8 character followed by a letter, sent encoded and read back.
C10_Witness ==
    /\ Applied
    /\ ConfiguredText = <<195, 169, 97>>
    /\ Has(Get(syntheticsTest).Config.Request.CompressedProtoFile)
    /\ Get(Get(actual).Config.Request.CompressedProtoFile)
        = compressAndEncodeValue(<<195, 169, 97>>)
    /\ d.request_definition[1].plain_proto_file = <<195, 169, 97>>

(* ---------------------------------------------------------------------- *)
(* The translator functions taken one call at a time                       *)
(* ---------------------------------------------------------------------- *)
\* A call of `fn` about to be made with the arguments `arg`: the resource
\* itself is left out of it.
Calling(fn, arg) ==
    /\ pc = "call"
    /\ call = <<[fn |-> fn, arg |-> arg]>>
    /\ result = <<>>
    /\ log = <<>>
    /\ config = EmptyConfig
    /\ d = EmptyConfig
    /\ syntheticsTest = <<>>
    /\ actual = <<>>
    /\ builtFrom = <<>>
    /\ firstState = <<>>
    /\ poll = <<>>

\* The call returning (or panicking) with `r`, having logged `lines`.
Returns(fn, r, lines) ==
    /\ pc = "call"
    /\ Get(call).fn = fn
    /\ result' = Set(r)
    /\ log' = lines
    /\ pc' = "return"
    /\ UNCHANGED <<config, d, syntheticsTest, actual, builtFrom, firstState, call, poll>>

Returned(fn) == pc = "return" /\ Has(call) /\ Get(call).fn = fn

Argument == Get(call).arg

(* --- a compressed proto file read back from the API -------------------- *)
\* Compressed proto files the API may answer with: what compressAndEncodeValue
\* gives for a text, and the same with the stream cut short, with a
\* character outside the base64 alphabet, and with no zlib header.
CutShort(value) == EncodeToString(SubSeq(zlibWrite(value), 1, Len(zlibWrite(value)) - 5))

WithIllegalCharacter(value) == <<"!">> \o Tail(compressAndEncodeValue(value))

WithoutZlibHeader(value) == EncodeToString(<<0, 0>> \o value)

CompressedProtoFiles ==
    UNION { {compressAndEncodeValue(t), CutShort(t), WithIllegalCharacter(t),
             WithoutZlibHeader(t)} : t \in Texts }

ResponseWithProtoFile(value) ==
    [Config |->
        [Request |-> [CompressedProtoFile |-> Set(value), BasicAuth |-> <<>>,
                      Certificate |-> <<>>],
         Assertions |-> <<>>]]

\* updateSyntheticsAPITestLocalState answering a Read: the diagnostics it
\* returns and the text it stored, or the panic of the deferred zl.Close().
ReadProtoFile(value) ==
    IF FlattenPanics(ResponseWithProtoFile(value)) THEN [outcome |-> "panic"]
    ELSE [outcome          |-> "returned",
          diags            |-> <<>>,
          plain_proto_file |->
            updateSyntheticsAPITestLocalState(EmptyConfig, ResponseWithProtoFile(value))
                .request_definition[1].plain_proto_file]

CallReadProtoFile ==
    Returns("decompressAndDecodeValue", ReadProtoFile(Argument), <<>>)

(* --- buildDatadogBasicAuth --------------------------------------------- *)
UnsupportedBasicAuthMaps ==
    { [m EXCEPT !.type = type] : m \in BasicAuthMaps, type \in {"bearer", "WEB", ""} }

\* buildDatadogBasicAuth that says nothing of a type it does not know.
buildDatadogBasicAuthLogSilent(requestBasicAuth) == <<>>

\* What buildDatadogBasicAuth logs: the warning of its last lines, reached
\* when no branch has returned.
buildDatadogBasicAuthLog(requestBasicAuth) ==
    IF \/ requestBasicAuth.type = "web" /\ requestBasicAuth.username # ""
       \/ /\ requestBasicAuth.type = "sigv4"
          /\ requestBasicAuth.access_key # ""
          /\ requestBasicAuth.secret_key # ""
       \/ requestBasicAuth.type \in {"ntlm", "oauth-client", "oauth-rop", "digest"}
    THEN <<>>
    ELSE <<[level |-> "WARN", text |-> "unrecognized basic auth type",
            about |-> requestBasicAuth.type]>>

CallBuildDatadogBasicAuth ==
    Returns("buildDatadogBasicAuth",
            [outcome |-> "returned", value |-> buildDatadogBasicAuth(Argument)],
            buildDatadogBasicAuthLog(Argument))

(* --- buildDatadogAssertions -------------------------------------------- *)
Line(level, about) == [level |-> level, about |-> about]

\* buildDatadogAssertion with the warnings of its generic branch left out.
buildDatadogAssertionLogQuietGeneric(assertionMap) ==
    IF assertionMap.type = "javascript" THEN <<>>
    ELSE IF assertionMap.operator \in {"validatesJSONSchema", "validatesJSONPath",
                                       "validatesXPath"}
    THEN <<Line("WARN", "target")>>
    ELSE <<>>

\* What one iteration of the loop of buildDatadogAssertions logs.  The maps
\* come from d.Get and hold every key of the schema, so that the test
\* `_, ok := assertionMap["target"]; ok` succeeds whatever `target` is.
buildDatadogAssertionLog(assertionMap) ==
    IF assertionMap.type = "javascript" THEN <<>>
    ELSE IF assertionMap.operator = "validatesJSONSchema"
    THEN (IF /\ Len(assertionMap.targetjsonschema) > 0
             /\ assertionMap.targetjsonschema[1].metaschema \notin MetaSchemas
          THEN <<Line("ERROR", "metaschema")>> ELSE <<>>)
         \o <<Line("WARN", "target")>>
    ELSE IF assertionMap.operator \in {"validatesJSONPath", "validatesXPath"}
    THEN <<Line("WARN", "target")>>
    ELSE (IF Len(assertionMap.targetjsonschema) > 0
          THEN <<Line("WARN", "targetjsonschema")>> ELSE <<>>)
         \o (IF Len(assertionMap.targetjsonpath) > 0
             THEN <<Line("WARN", "targetjsonpath")>> ELSE <<>>)
         \o (IF Len(assertionMap.targetxpath) > 0
             THEN <<Line("WARN", "targetxpath")>> ELSE <<>>)

RECURSIVE buildDatadogAssertionsLog(_)
buildDatadogAssertionsLog(attr) ==
    IF attr = <<>> THEN <<>>
    ELSE buildDatadogAssertionLog(Head(attr)) \o buildDatadogAssertionsLog(Tail(attr))

\* Assertion maps with the discriminators of two variants, or with fields
\* of a variant that is not theirs.
StrayAssertionMaps ==
    { [EmptyAssertionMap EXCEPT !.type = "javascript", !.code = "return true;",
                                !.operator = "validatesJSONPath", !.target = Str42,
                                !.targetjsonpath = JSONPathBlock("is", StrAbc)],
      [EmptyAssertionMap EXCEPT !.type = "body", !.operator = "validatesJSONSchema",
                                !.target = Str42,
                                !.targetjsonschema =
                                    <<[jsonschema |-> "{}", metaschema |-> "draft-04"]>>,
                                !.targetjsonpath = JSONPathBlock("is", StrAbc)],
      [EmptyAssertionMap EXCEPT !.type = "body", !.operator = "validatesJSONPath",
                                !.target = StrAbc,
                                !.targetjsonpath = JSONPathBlock("lessThan", Str42)],
      [EmptyAssertionMap EXCEPT !.type = "body", !.operator = "validatesJSONPath",
                                !.targetjsonpath = JSONPathBlock("lessThan", Str42)],
      [EmptyAssertionMap EXCEPT !.type = "body", !.operator = "validatesXPath",
                                !.target = Str42,
                                !.targetxpath = XPathBlock("is", StrAbc)],
      [EmptyAssertionMap EXCEPT !.type = "statusCode", !.operator = "is",
                                !.target = Str42,
                                !.targetjsonschema =
                                    <<[jsonschema |-> "{}", metaschema |-> "draft-07"]>>,
                                !.targetxpath = XPathBlock("is", StrAbc)],
      [EmptyAssertionMap EXCEPT !.type = "body", !.operator = "contains",
                                !.target = StrAbc,
                                !.targetjsonpath = JSONPathBlock("is", StrAbc)],
      [EmptyAssertionMap EXCEPT !.type = "statusCode", !.operator = "is",
                                !.target = Str42] }

CallBuildDatadogAssertions ==
    Returns("buildDatadogAssertions",
            [outcome |-> "returned", value |-> buildDatadogAssertions(Argument)],
            buildDatadogAssertionsLog(Argument))

(* --- the api_step loop of buildDatadogSyntheticsAPITest ---------------- *)
MaxSteps == 2

\* datadogV1.SyntheticsAPIStep: one pointer per variant of the union.
EmptySyntheticsAPIStep == [SyntheticsAPITestStep |-> <<>>, SyntheticsAPIWaitStep |-> <<>>]

\* One iteration of the loop over api_step; of the test step, the members
\* that do not depend on its request.
buildDatadogAPIStep(stepMap) ==
    IF stepMap.subtype \in {"", "http", "grpc"}
    THEN [EmptySyntheticsAPIStep EXCEPT !.SyntheticsAPITestStep =
            Set([Name         |-> stepMap.name,
                 Subtype      |-> stepMap.subtype,
                 Assertions   |-> buildDatadogAssertions(stepMap.assertion),
                 AllowFailure |-> stepMap.allow_failure,
                 IsCritical   |-> stepMap.is_critical])]
    ELSE IF stepMap.subtype = "wait"
    THEN [EmptySyntheticsAPIStep EXCEPT !.SyntheticsAPIWaitStep =
            Set([Name    |-> stepMap.name,
                 Subtype |-> stepMap.subtype,
                 Value   |-> stepMap.value])]
    ELSE EmptySyntheticsAPIStep

buildDatadogAPISteps(attr) == [i \in 1..Len(attr) |-> buildDatadogAPIStep(attr[i])]

RECURSIVE buildDatadogAPIStepsLog(_)
buildDatadogAPIStepsLog(attr) ==
    IF attr = <<>> THEN <<>>
    ELSE (IF Head(attr).subtype \in {"", "http", "grpc"}
          THEN buildDatadogAssertionsLog(Head(attr).assertion) ELSE <<>>)
         \o buildDatadogAPIStepsLog(Tail(attr))

APIStepMaps ==
    { [name |-> name, subtype |-> subtype, value |-> 1, allow_failure |-> FALSE,
       is_critical |-> TRUE, assertion |-> assertion]
        : name \in {"first", "second"},
          subtype \in {"", "http", "grpc", "wait", "ssl"},
          assertion \in ListsUpTo({[EmptyAssertionMap EXCEPT
                                        !.type = "statusCode", !.operator = "is",
                                        !.target = Str42]}, 1) }

CallBuildDatadogAPISteps ==
    Returns("buildDatadogAPISteps",
            [outcome |-> "returned", value |-> buildDatadogAPISteps(Argument)],
            buildDatadogAPIStepsLog(Argument))

(* --- config variables and browser variables read back ----------------- *)
MaxVariables == 2

IsSecure(variable) == Has(variable.Secure) /\ Get(variable.Secure)

\* One iteration of the loop of buildTerraformConfigVariables.
buildTerraformConfigVariable(configVariable, oldConfigVariables, i) ==
    ("type" :> configVariable.Type)
    @@ ("name" :> configVariable.Name)
    @@ Entry("secure", configVariable.Secure)
    @@ (IF configVariable.Type = "global" THEN EmptyMap
        ELSE IF IsSecure(configVariable)
        THEN ("example" :> oldConfigVariables[i].example)
             @@ ("pattern" :> oldConfigVariables[i].pattern)
        ELSE Entry("example", configVariable.Example)
             @@ Entry("pattern", configVariable.Pattern))
    @@ Entry("id", configVariable.Id)

\* oldConfigVariables[i] with no such element: index out of range.
buildTerraformConfigVariablesPanics(configVariables, oldConfigVariables) ==
    \E i \in 1..Len(configVariables) :
        /\ configVariables[i].Type # "global"
        /\ IsSecure(configVariables[i])
        /\ i > Len(oldConfigVariables)

buildTerraformConfigVariables(configVariables, oldConfigVariables) ==
    IF buildTerraformConfigVariablesPanics(configVariables, oldConfigVariables)
    THEN [outcome |-> "panic"]
    ELSE [outcome |-> "returned",
          value   |-> [i \in 1..Len(configVariables) |->
                        buildTerraformConfigVariable(configVariables[i],
                                                     oldConfigVariables, i)]]

\* d.Get("browser_variable.<i>.<key>"): the zero value where d has no such
\* element.
GetBrowserVariable(browserVariables, i, key) ==
    IF i \in 1..Len(browserVariables) THEN browserVariables[i][key] ELSE ""

\* One iteration of the loop over config.GetVariables() in
\* updateSyntheticsBrowserTestLocalState.
browserVariable(variable, browserVariables, i) ==
    ("type" :> variable.Type)
    @@ ("name" :> variable.Name)
    @@ Entry("id", variable.Id)
    @@ Entry("secure", variable.Secure)
    @@ (IF Has(variable.Example) THEN "example" :> Get(variable.Example)
        ELSE IF IsSecure(variable)
        THEN "example" :> GetBrowserVariable(browserVariables, i, "example")
        ELSE EmptyMap)
    @@ (IF Has(variable.Pattern) THEN "pattern" :> Get(variable.Pattern)
        ELSE IF IsSecure(variable)
        THEN "pattern" :> GetBrowserVariable(browserVariables, i, "pattern")
        ELSE EmptyMap)

localBrowserVariables(actualVariables, browserVariables) ==
    [i \in 1..Len(actualVariables) |->
        browserVariable(actualVariables[i], browserVariables, i)]

\* Variables as the API returns them and as the prior configuration holds
\* them.
ReturnedVariables ==
    { [Type |-> "text", Name |-> "TOKEN", Secure |-> <<TRUE>>, Example |-> <<>>,
       Pattern |-> <<>>, Id |-> <<>>],
      [Type |-> "text", Name |-> "TOKEN", Secure |-> <<TRUE>>, Example |-> <<"">>,
       Pattern |-> <<"">>, Id |-> <<>>],
      [Type |-> "text", Name |-> "HOST", Secure |-> <<FALSE>>, Example |-> <<"srv">>,
       Pattern |-> <<"srv">>, Id |-> <<>>],
      [Type |-> "text", Name |-> "HOST", Secure |-> <<>>, Example |-> <<"srv">>,
       Pattern |-> <<>>, Id |-> <<>>],
      [Type |-> "global", Name |-> "SHARED", Secure |-> <<>>, Example |-> <<>>,
       Pattern |-> <<>>, Id |-> <<"g-1">>],
      [Type |-> "global", Name |-> "SHARED", Secure |-> <<TRUE>>, Example |-> <<>>,
       Pattern |-> <<>>, Id |-> <<"g-1">>] }

PriorVariables ==
    { [type |-> "text", name |-> "TOKEN", secure |-> TRUE, example |-> "t0ken",
       pattern |-> "{{ alphabetic(5) }}", id |-> ""],
      [type |-> "text", name |-> "HOST", secure |-> FALSE, example |-> "",
       pattern |-> "", id |-> ""] }

VariableArguments ==
    { [returned |-> returned, prior |-> prior]
        : returned \in ListsUpTo(ReturnedVariables, MaxVariables),
          prior \in ListsUpTo(PriorVariables, MaxVariables) }

CallBuildTerraformConfigVariables ==
    Returns("buildTerraformConfigVariables",
            buildTerraformConfigVariables(Argument.returned, Argument.prior), <<>>)

CallLocalBrowserVariables ==
    Returns("localBrowserVariables",
            [outcome |-> "returned",
             value   |-> localBrowserVariables(Argument.returned, Argument.prior)], <<>>)

\* A table that forgets the way back from withClick.
convertStepParamsKeyOneWay(key) ==
    CASE key = "click_type"        -> "clickType"
      [] key = "clickType"         -> "click_type"
      [] key = "playing_tab_id"    -> "playingTabId"
      [] key = "playingTabId"      -> "playing_tab_id"
      [] key = "subtest_public_id" -> "subtestPublicId"
      [] key = "subtestPublicId"   -> "subtest_public_id"
      [] key = "with_click"        -> "withClick"
      [] OTHER                     -> key

convertStepParamsKey(key) ==
    CASE key = "click_type"        -> "clickType"
      [] key = "clickType"         -> "click_type"
      [] key = "playing_tab_id"    -> "playingTabId"
      [] key = "playingTabId"      -> "playing_tab_id"
      [] key = "subtest_public_id" -> "subtestPublicId"
      [] key = "subtestPublicId"   -> "subtest_public_id"
      [] key = "with_click"        -> "withClick"
      [] key = "withClick"         -> "with_click"
      [] OTHER                     -> key

\* The browser steps: the step loop of buildDatadogSyntheticsBrowserTest and
\* the step loop of updateSyntheticsBrowserTestLocalState, one step at a time.
getParamsKeysForStepType(stepType) ==
    CASE stepType = "assertCurrentUrl"       -> <<"check", "value">>
      [] stepType = "assertElementAttribute" -> <<"attribute", "check", "element", "value">>
      [] stepType = "assertElementContent"   -> <<"check", "element", "value">>
      [] stepType = "assertElementPresent"   -> <<"element">>
      [] stepType = "assertEmail"            -> <<"email">>
      [] stepType = "assertFileDownload"     -> <<"file">>
      [] stepType = "assertFromJavascript"   -> <<"code", "element">>
      [] stepType = "assertPageContains"     -> <<"value">>
      [] stepType = "assertPageLacks"        -> <<"value">>
      [] stepType = "click"                  -> <<"click_type", "element">>
      [] stepType = "extractFromJavascript"  -> <<"code", "element", "variable">>
      [] stepType = "extractVariable"        -> <<"element", "variable">>
      [] stepType = "goToEmailLink"          -> <<"value">>
      [] stepType = "goToUrl"                -> <<"value">>
      [] stepType = "hover"                  -> <<"element">>
      [] stepType = "playSubTest"            -> <<"playing_tab_id", "subtest_public_id">>
      [] stepType = "pressKey"               -> <<"modifiers", "value">>
      [] stepType = "refresh"                -> <<>>
      [] stepType = "runApiTest"             -> <<"request">>
      [] stepType = "scroll"                 -> <<"element", "x", "y">>
      [] stepType = "selectOption"           -> <<"element", "value">>
      [] stepType = "typeText"               -> <<"delay", "element", "value">>
      [] stepType = "uploadFiles"            -> <<"element", "files", "with_click">>
      [] stepType = "wait"                   -> <<"value">>
      [] OTHER                               -> <<>>

JSONTextKeys == {"element", "email", "file", "files", "request"}

\* utils.GetMetadataFromJSON into a fresh interface{}: the decoded value, nil
\* when the text does not parse.
GetMetadataFromJSON(text) ==
    IF jsonUnmarshal(text).ok THEN jsonUnmarshal(text).value ELSE NilValue

\* utils.GetMetadataFromJSON into a map made beforehand: the members of the
\* object the text holds, and the map as it was when the text holds no object.
GetMetadataFromJSONIntoMap(text) ==
    IF jsonUnmarshal(text).ok /\ jsonUnmarshal(text).value.kind = "map"
    THEN jsonUnmarshal(text).value.members
    ELSE EmptyMap

convertStepParamsValueForConfigPanics(key, value) ==
    key = "variable" /\ value.elems = <<>>

convertStepParamsValueForConfig(stepType, key, value) ==
    CASE key \in JSONTextKeys   -> GetMetadataFromJSON(value.str)
      [] key = "playing_tab_id" -> IntValue(Atoi(value.str))
      [] key = "value"          -> IF stepType = "wait" THEN IntValue(Atoi(value.str)) ELSE value
      [] key = "variable"       -> value.elems[1]
      [] OTHER                  -> value

convertStepParamsValueForConfigLog(key, value) ==
    IF key \in JSONTextKeys /\ ~jsonUnmarshal(value.str).ok
    THEN <<Line("ERROR", key)>>
    ELSE <<>>

convertStepParamsValueForState(key, value) ==
    CASE key \in JSONTextKeys               ->
            StringValue(IF jsonMarshalOk(value) THEN jsonMarshal(value) ELSE <<>>)
      [] key \in {"playing_tab_id", "value"} -> StringValue(convertToString(value))
      [] key = "variable"                    -> SliceValue(<<value>>)
      [] OTHER                               -> value

\* A merge that keeps nothing of the parsed element.
mergeUserLocatorAlone(stepElement, userLocator) == "userLocator" :> userLocator

\* stepElement["userLocator"] = userLocator
mergeUserLocator(stepElement, userLocator) == ("userLocator" :> userLocator) @@ stepElement

IsSet(value) == value # StringValue(<<>>)

\* The loop over the keys of the step type.
RECURSIVE paramsOfKeys(_, _, _)
paramsOfKeys(stepType, stepParams, keys) ==
    IF keys = <<>> THEN EmptyMap
    ELSE paramsOfKeys(stepType, stepParams, Tail(keys))
         @@ (IF IsSet(stepParams[Head(keys)])
             THEN convertStepParamsKey(Head(keys))
                    :> convertStepParamsValueForConfig(stepType, Head(keys), stepParams[Head(keys)])
             ELSE EmptyMap)

RECURSIVE paramsOfKeysLog(_, _)
paramsOfKeysLog(stepParams, keys) ==
    IF keys = <<>> THEN <<>>
    ELSE (IF IsSet(stepParams[Head(keys)])
          THEN convertStepParamsValueForConfigLog(Head(keys), stepParams[Head(keys)])
          ELSE <<>>)
         \o paramsOfKeysLog(stepParams, Tail(keys))

HasUserLocator(stepParams) == Len(stepParams.element_user_locator.elems) # 0

buildDatadogBrowserStepPanics(stepMap) ==
    LET stepParams == stepMap.params[1]
        keys       == getParamsKeysForStepType(stepMap.type)
    IN  \/ \E n \in 1..Len(keys) :
            /\ IsSet(stepParams[keys[n]])
            /\ convertStepParamsValueForConfigPanics(keys[n], stepParams[keys[n]])
        \/ /\ HasUserLocator(stepParams)
           /\ stepParams.element_user_locator.elems[1].members.value.elems = <<>>

buildDatadogBrowserStepParams(stepMap) ==
    LET stepParams   == stepMap.params[1]
        params       == paramsOfKeys(stepMap.type, stepParams,
                                     getParamsKeysForStepType(stepMap.type))
        locatorMap   == stepParams.element_user_locator.elems[1].members
        userLocator  == MapValue("failTestOnCannotLocate" :> locatorMap.fail_test_on_cannot_locate
                                 @@ "values" :> SliceValue(<<locatorMap.value.elems[1]>>))
        stepElement  == GetMetadataFromJSONIntoMap(stepParams.element.str)
    IN  IF HasUserLocator(stepParams)
        THEN ("element" :> MapValue(mergeUserLocator(stepElement, userLocator))) @@ params
        ELSE params

buildDatadogBrowserStep(stepMap) ==
    IF buildDatadogBrowserStepPanics(stepMap) THEN [outcome |-> "panic"]
    ELSE [outcome |-> "returned",
          step    |-> [Name         |-> stepMap.name,
                       Type         |-> stepMap.type,
                       AllowFailure |-> Set(stepMap.allow_failure),
                       IsCritical   |-> Set(stepMap.is_critical),
                       Timeout      |-> Set(stepMap.timeout),
                       NoScreenshot |-> Set(stepMap.no_screenshot),
                       Params       |-> Set(MapValue(buildDatadogBrowserStepParams(stepMap)))]]

\* The keys of the params block of the schema.
StepParamsSchemaKeys ==
    {"attribute", "check", "click_type", "code", "delay", "element", "element_user_locator",
     "email", "file", "files", "modifiers", "playing_tab_id", "request", "subtest_public_id",
     "value", "variable", "with_click", "x", "y"}

\* The type assertions and the index that take the user locator out of the
\* returned element.
flattenUserLocatorPanics(elementParams) ==
    LET stepElement == GetMetadataFromJSON(convertStepParamsValueForState("element",
                                                                          elementParams).str)
    IN  \/ stepElement.kind # "map"
        \/ /\ "userLocator" \in DOMAIN stepElement.members
           /\ LET userLocator == stepElement.members.userLocator
              IN  \/ userLocator.kind # "map"
                  \/ "values" \notin DOMAIN userLocator.members
                  \/ userLocator.members.values.kind # "slice"
                  \/ userLocator.members.values.elems = <<>>
                  \/ userLocator.members.values.elems[1].kind # "map"

flattenBrowserStepPanics(step) ==
    \/ ~Has(step.Params)
    \/ Get(step.Params).kind # "map"
    \/ /\ "element" \in DOMAIN Get(step.Params).members
       /\ flattenUserLocatorPanics(Get(step.Params).members.element)

\* The loop without the test of force_element_update.
flattenParamsOfKeysFromBackend(paramsMap, forceElementUpdate, element) ==
    [k \in {convertStepParamsKey(key) : key \in DOMAIN paramsMap} |->
        convertStepParamsValueForState(k,
            paramsMap[CHOOSE key \in DOMAIN paramsMap : convertStepParamsKey(key) = k])]

\* The loop over the params the model carries.
flattenParamsOfKeys(paramsMap, forceElementUpdate, element) ==
    LET Written(key) ==
            IF key = "element" /\ forceElementUpdate THEN "element"
            ELSE convertStepParamsKey(key)
        From(k) == CHOOSE key \in DOMAIN paramsMap : Written(key) = k
    IN  [k \in {Written(key) : key \in DOMAIN paramsMap} |->
            IF From(k) = "element" /\ forceElementUpdate THEN StringValue(element)
            ELSE convertStepParamsValueForState(k, paramsMap[From(k)])]

flattenBrowserStepParams(step, forceElementUpdate, element) ==
    LET paramsMap   == Get(step.Params).members
        localParams == flattenParamsOfKeys(paramsMap, forceElementUpdate, element)
        stepElement == GetMetadataFromJSON(
                          convertStepParamsValueForState("element", paramsMap.element).str)
        userLocator == stepElement.members.userLocator.members
        nilOr(m, k) == IF k \in DOMAIN m THEN m[k] ELSE NilValue
        localElementUserLocator ==
            MapValue("fail_test_on_cannot_locate" :> nilOr(userLocator, "failTestOnCannotLocate")
                     @@ "value" :> SliceValue(<<userLocator.values.elems[1]>>))
    IN  IF "element" \in DOMAIN paramsMap /\ "userLocator" \in DOMAIN stepElement.members
        THEN ("element_user_locator" :> SliceValue(<<localElementUserLocator>>)) @@ localParams
        ELSE localParams

\* One step of the loop and the d.Set of the list: a key the schema of the
\* params block does not have makes d.Set fail.
flattenBrowserStep(step, forceElementUpdate, element) ==
    IF flattenBrowserStepPanics(step) THEN [outcome |-> "panic"]
    ELSE LET localParams == flattenBrowserStepParams(step, forceElementUpdate, element)
         IN  IF ~(DOMAIN localParams \subseteq StepParamsSchemaKeys)
             THEN [outcome |-> "error"]
             ELSE [outcome   |-> "returned",
                   localStep |->
                      ("name" :> step.Name
                       @@ "type" :> step.Type
                       @@ "timeout" :> (IF Has(step.Timeout) THEN Get(step.Timeout) ELSE 0)
                       @@ Entry("allow_failure", step.AllowFailure)
                       @@ Entry("is_critical", step.IsCritical)
                       @@ Entry("no_screenshot", step.NoScreenshot)
                       @@ (IF forceElementUpdate THEN "force_element_update" :> TRUE
                           ELSE EmptyMap)
                       @@ "params" :> <<localParams>>)]

\* convertToString, called with each kind of value a decoded JSON document or a
\* built model can hold.
ConvertibleValues ==
    {BoolValue(TRUE), BoolValue(FALSE)}
    \cup {IntValue(n) : n \in {0 - 12, 0, 7, 42}}
    \cup {ParseFloat(t) : t \in {StrDecimal, Str42, <<"-", "0", ".", "2", "5">>,
                                  <<"0", ".", "0", "5">>}}
    \cup {StringValue(t) : t \in {<<>>, StrAbc, StrDecimal}}
    \cup {NilValue, SliceValue(<<>>), MapValue(EmptyMap),
          SliceValue(<<StringValue(StrAbc), ParseFloat(StrDecimal), BoolValue(TRUE)>>),
          MapValue("b" :> StringValue(StrAbc) @@ "a" :> NilValue),
          MapValue("values" :> SliceValue(<<MapValue("type" :> StringValue(StrAbc))>>))}

CallConvertToString == Returns("convertToString", convertToString(Argument), <<>>)

\* Every key of the params schema, the camel-cased names the API uses, and
\* names neither side knows.
StepParamsKeys ==
    {"attribute", "check", "click_type", "code", "delay", "element", "element_user_locator",
     "email", "file", "files", "modifiers", "playing_tab_id", "request", "subtest_public_id",
     "value", "variable", "with_click", "x", "y",
     "clickType", "playingTabId", "subtestPublicId", "withClick",
     "", "Click_Type", "clicktype", "with-click", "appendToContent"}

CallConvertStepParamsKey ==
    Returns("convertStepParamsKey", convertStepParamsKey(Argument), <<>>)

\* Element texts: an object with its members out of key order, an object that
\* already holds a user locator, an array, and a text cut short.
ElementPlain ==
    <<Token("{"), NameToken("url"), Token(":"), StringToken(StrAbc), Token(","), Token(" "),
      NameToken("targetOuterHTML"), Token(":"), StringToken(Str42), Token("}")>>

StrCss == <<"c", "s", "s">>

StrPrimary == <<"p", "r", "i", "m", "a", "r", "y">>

ElementLocated ==
    <<Token("{"), NameToken("multiLocator"), Token(":"),
        Token("{"), NameToken("a"), Token(":"), StringToken(StrAbc), Token("}"), Token(","),
      NameToken("userLocator"), Token(":"),
        Token("{"), NameToken("failTestOnCannotLocate"), Token(":"), Token("true"), Token(","),
          NameToken("values"), Token(":"),
            Token("["), Token("{"), NameToken("type"), Token(":"), StringToken(StrCss),
                        Token(","), NameToken("value"), Token(":"), StringToken(Str42),
            Token("}"), Token("]"),
        Token("}"), Token(","),
      NameToken("url"), Token(":"), StringToken(StrAbc), Token("}")>>

ElementArray == <<Token("["), NumberToken(StrDecimal), Token("]")>>

ElementCutShort == <<Token("{"), NameToken("url"), Token(":")>>

\* The params block as d.Get hands it over: every key of the schema, unset
\* ones at the zero value of their type.
EmptyStepParams ==
    [attribute |-> StringValue(<<>>), check |-> StringValue(<<>>),
     click_type |-> StringValue(<<>>), code |-> StringValue(<<>>), delay |-> IntValue(0),
     element |-> StringValue(<<>>), element_user_locator |-> SliceValue(<<>>),
     email |-> StringValue(<<>>), file |-> StringValue(<<>>), files |-> StringValue(<<>>),
     modifiers |-> SliceValue(<<>>), playing_tab_id |-> StringValue(<<>>),
     request |-> StringValue(<<>>), subtest_public_id |-> StringValue(<<>>),
     value |-> StringValue(<<>>), variable |-> SliceValue(<<>>),
     with_click |-> BoolValue(FALSE), x |-> IntValue(0), y |-> IntValue(0)]

UserLocatorBlock(values) ==
    SliceValue(<<MapValue([fail_test_on_cannot_locate |-> BoolValue(FALSE),
                           value                      |-> SliceValue(values)])>>)

UserLocatorValue == MapValue([type |-> StringValue(StrCss), value |-> StringValue(StrAbc)])

StepParamsMaps ==
    LET clicked == [EmptyStepParams EXCEPT !.element = StringValue(ElementPlain),
                                           !.click_type = StringValue(StrPrimary),
                                           !.value = StringValue(Str42)]
        located == UserLocatorBlock(<<UserLocatorValue>>)
    IN  { EmptyStepParams,
          clicked,
          [clicked EXCEPT !.element_user_locator = located],
          [clicked EXCEPT !.element = StringValue(ElementLocated),
                          !.element_user_locator = located],
          [clicked EXCEPT !.element = StringValue(ElementArray),
                          !.element_user_locator = located],
          [clicked EXCEPT !.element = StringValue(ElementCutShort)],
          [clicked EXCEPT !.element_user_locator = UserLocatorBlock(<<>>)],
          [EmptyStepParams EXCEPT !.value = StringValue(Str42),
                                  !.element_user_locator = located],
          [clicked EXCEPT !.playing_tab_id = StringValue(Str42),
                          !.subtest_public_id = StringValue(StrAbc),
                          !.with_click = BoolValue(TRUE),
                          !.files = StringValue(ElementArray),
                          !.variable = SliceValue(<<MapValue([name    |-> StringValue(StrAbc),
                                                              example |-> StringValue(<<>>)])>>)] }

StepTypes ==
    {"assertCurrentUrl", "assertElementAttribute", "assertElementContent",
     "assertElementPresent", "assertEmail", "assertFileDownload", "assertFromJavascript",
     "assertPageContains", "assertPageLacks", "click", "extractFromJavascript",
     "extractVariable", "goToEmailLink", "goToUrl", "hover", "playSubTest", "pressKey",
     "refresh", "runApiTest", "scroll", "selectOption", "typeText", "uploadFiles", "wait"}

BrowserStepMaps ==
    { [name |-> "step", type |-> stepType, allow_failure |-> FALSE, is_critical |-> FALSE,
       timeout |-> 0, no_screenshot |-> FALSE, params |-> <<stepParams>>] :
        stepType \in StepTypes, stepParams \in StepParamsMaps }

CallBuildDatadogBrowserStep ==
    Returns("buildDatadogBrowserStep", buildDatadogBrowserStep(Argument),
            IF buildDatadogBrowserStepPanics(Argument) THEN <<>>
            ELSE paramsOfKeysLog(Argument.params[1], getParamsKeysForStepType(Argument.type)))

\* The params of the steps the API returns: what a decoded JSON object can hold.
ReturnedStepParams ==
    LET element == GetMetadataFromJSON(ElementPlain)
        located == GetMetadataFromJSON(ElementLocated)
    IN  { <<>>,
          Set(NilValue),
          Set(MapValue(EmptyMap)),
          Set(MapValue("element" :> element @@ "clickType" :> StringValue(StrPrimary))),
          Set(MapValue("element" :> located @@ "clickType" :> StringValue(StrPrimary))),
          Set(MapValue("element" :> located @@ "value" :> ParseFloat(Str42))),
          Set(MapValue("value" :> ParseFloat(StrDecimal))),
          Set(MapValue("playingTabId" :> ParseFloat(Str42)
                       @@ "subtestPublicId" :> StringValue(StrAbc))),
          Set(MapValue("element" :> StringValue(StrAbc))),
          Set(MapValue("element" :> MapValue("userLocator" :> MapValue(EmptyMap)))),
          Set(MapValue("value" :> StringValue(StrAbc) @@ "appendToContent" :> BoolValue(TRUE))) }

ReturnedSteps ==
    { [Name |-> "step", Type |-> stepType, AllowFailure |-> Set(FALSE), IsCritical |-> <<>>,
       Timeout |-> Set(0), NoScreenshot |-> <<>>, Params |-> params] :
        stepType \in {"click", "wait", "playSubTest", "refresh", "extractVariable"},
        params \in ReturnedStepParams }

FlattenArguments ==
    [step : ReturnedSteps, force_element_update : BOOLEAN, element : {<<>>, ElementPlain}]

CallFlattenBrowserStep ==
    Returns("flattenBrowserStep",
            flattenBrowserStep(Argument.step, Argument.force_element_update, Argument.element),
            <<>>)

\* The DiffSuppressFunc of params.0.element.  forceElementUpdate is the value
\* d.GetOk reads at the key of the step: ok is false when it is false.
elementDiffSuppressFunc(old, new, forceElementUpdate) ==
    IF old = <<>> THEN old = new
    ELSE IF forceElementUpdate THEN FALSE
    ELSE TRUE

ElementDiffs ==
    [old : {<<>>, ElementPlain, ElementLocated},
     new : {<<>>, ElementPlain, ElementLocated},
     force_element_update : BOOLEAN]

CallElementDiffSuppressFunc ==
    Returns("elementDiffSuppressFunc",
            elementDiffSuppressFunc(Argument.old, Argument.new, Argument.force_element_update),
            <<>>)

\* buildTerraformBodyFiles.  localFile is the map of the prior list itself, so
\* the assignments land in the caller's list: the function is given as the
\* list it returns together with the prior list as the call leaves it.
MaxFiles == 2

buildTerraformBodyFile(file, localFile) ==
    Entry("bucket_key", file.BucketKey)
    @@ [name               |-> file.Name,
        original_file_name |-> file.OriginalFileName,
        type               |-> file.Type,
        size               |-> file.Size]
    @@ localFile

buildTerraformBodyFilesPanics(actualBodyFiles, oldLocalBodyFiles) ==
    Len(actualBodyFiles) > Len(oldLocalBodyFiles)

buildTerraformBodyFiles(actualBodyFiles, oldLocalBodyFiles) ==
    IF buildTerraformBodyFilesPanics(actualBodyFiles, oldLocalBodyFiles)
    THEN [outcome |-> "panic"]
    ELSE [outcome           |-> "returned",
          localBodyFiles    |->
             [i \in 1..Len(actualBodyFiles) |->
                buildTerraformBodyFile(actualBodyFiles[i], oldLocalBodyFiles[i])],
          oldLocalBodyFiles |->
             [i \in 1..Len(oldLocalBodyFiles) |->
                IF i <= Len(actualBodyFiles)
                THEN buildTerraformBodyFile(actualBodyFiles[i], oldLocalBodyFiles[i])
                ELSE oldLocalBodyFiles[i]]]

ReturnedBodyFiles ==
    { [Name |-> "body", OriginalFileName |-> "body.json", Type |-> "application/json",
       Size |-> 2, BucketKey |-> Set("bucket/1")],
      [Name |-> "", OriginalFileName |-> "", Type |-> "", Size |-> 0, BucketKey |-> <<>>] }

PriorBodyFiles ==
    { [content |-> "{}", bucket_key |-> "", name |-> "body", original_file_name |-> "body.json",
       type |-> "application/json", size |-> 2],
      [content |-> "{}", bucket_key |-> "bucket/0", name |-> "old", original_file_name |-> "",
       type |-> "text/plain", size |-> 2] }

BodyFileArguments ==
    [actual : ListsUpTo(ReturnedBodyFiles, MaxFiles), old : ListsUpTo(PriorBodyFiles, MaxFiles)]

CallBuildTerraformBodyFiles ==
    Returns("buildTerraformBodyFiles",
            buildTerraformBodyFiles(Argument.actual, Argument.old), <<>>)

\* buildDatadogSyntheticsBrowserTest, the client certificate of the request:
\* d.GetOk answers a list, the type assertion asks for a map.
browserRequestCertificatePanics(requestClientCertificate) ==
    Len(requestClientCertificate) > 0

buildDatadogSyntheticsBrowserTestRequest(requestClientCertificate) ==
    IF browserRequestCertificatePanics(requestClientCertificate)
    THEN [outcome |-> "panic"]
    ELSE [outcome |-> "returned", request |-> [Certificate |-> <<>>]]

CallBuildDatadogSyntheticsBrowserTestRequest ==
    Returns("buildDatadogSyntheticsBrowserTest",
            buildDatadogSyntheticsBrowserTestRequest(Argument), <<>>)

\* buildTerraformTestRequest, the members other than the two compressed ones:
\* each is written under its key when the model has it.
RequestKeys ==
    <<<<"body", "Body">>, <<"body_type", "BodyType">>, <<"method", "Method">>,
      <<"timeout", "Timeout">>, <<"url", "Url">>, <<"host", "Host">>, <<"port", "Port">>,
      <<"dns_server", "DnsServer">>, <<"dns_server_port", "DnsServerPort">>,
      <<"no_saving_response_body", "NoSavingResponseBody">>,
      <<"number_of_packets", "NumberOfPackets">>, <<"should_track_hops", "ShouldTrackHops">>,
      <<"servername", "Servername">>, <<"message", "Message">>, <<"call_type", "CallType">>,
      <<"service", "Service">>, <<"certificate_domains", "CertificateDomains">>,
      <<"persist_cookies", "PersistCookies">>, <<"http_version", "HttpVersion">>>>

\* The port is a number or the name of a variable.
flattenPort(port) ==
    IF Has(port.SyntheticsTestRequestNumericalPort)
    THEN "port" :> Itoa(Get(port.SyntheticsTestRequestNumericalPort))
    ELSE IF Has(port.SyntheticsTestRequestVariablePort)
    THEN "port" :> Get(port.SyntheticsTestRequestVariablePort)
    ELSE EmptyMap

RECURSIVE buildTerraformTestRequestKeys(_, _)
buildTerraformTestRequestKeys(request, n) ==
    IF n > Len(RequestKeys) THEN EmptyMap
    ELSE LET key   == RequestKeys[n][1]
             field == RequestKeys[n][2]
         IN  (IF ~Has(request[field]) THEN EmptyMap
              ELSE IF key = "port" THEN flattenPort(Get(request[field]))
              ELSE IF key \in {"method", "dns_server"}
              THEN key :> convertToString(StringValue(Get(request[field])))
              ELSE key :> Get(request[field]))
             @@ buildTerraformTestRequestKeys(request, n + 1)

\* buildTerraformTestOptions
OptionsKeys ==
    <<<<"follow_redirects", "FollowRedirects">>,
      <<"min_failure_duration", "MinFailureDuration">>,
      <<"min_location_failed", "MinLocationFailed">>, <<"tick_every", "TickEvery">>,
      <<"http_version", "HttpVersion">>, <<"accept_self_signed", "AcceptSelfSigned">>,
      <<"check_certificate_revocation", "CheckCertificateRevocation">>,
      <<"allow_insecure", "AllowInsecure">>, <<"no_screenshot", "NoScreenshot">>,
      <<"monitor_name", "MonitorName">>, <<"monitor_priority", "MonitorPriority">>,
      <<"restricted_roles", "RestrictedRoles">>,
      <<"ignore_server_certificate_error", "IgnoreServerCertificateError">>,
      <<"disable_csp", "DisableCsp">>, <<"disable_cors", "DisableCors">>,
      <<"initial_navigation_timeout", "InitialNavigationTimeout">>>>

RECURSIVE buildTerraformTestOptionsKeys(_, _)
buildTerraformTestOptionsKeys(actualOptions, n) ==
    IF n > Len(OptionsKeys) THEN EmptyMap
    ELSE Entry(OptionsKeys[n][1], actualOptions[OptionsKeys[n][2]])
         @@ buildTerraformTestOptionsKeys(actualOptions, n + 1)

\* retry.GetCount(): the count, 0 when the retry has none.
GetOrZero(o) == IF Has(o) THEN Get(o) ELSE 0

buildTerraformTestOptions(actualOptions) ==
    <<buildTerraformTestOptionsKeys(actualOptions, 1)
      @@ (IF Has(actualOptions.Retry)
          THEN "retry" :> <<("count" :> GetOrZero(Get(actualOptions.Retry).Count))
                            @@ Entry("interval", Get(actualOptions.Retry).Interval)>>
          ELSE EmptyMap)
      @@ (IF Has(actualOptions.MonitorOptions)
             /\ Has(Get(actualOptions.MonitorOptions).RenotifyInterval)
          THEN "monitor_options" :>
                  <<"renotify_interval" :> Get(Get(actualOptions.MonitorOptions).RenotifyInterval)>>
          ELSE EmptyMap)
      @@ (IF Has(actualOptions.Scheduling)
          THEN "scheduling" :>
                  <<[timeframes |-> Get(actualOptions.Scheduling).Timeframes,
                     timezone   |-> Get(actualOptions.Scheduling).Timezone]>>
          ELSE EmptyMap)
      @@ (IF Has(actualOptions.Ci)
          THEN "ci" :> <<[execution_rule |-> Get(actualOptions.Ci).ExecutionRule]>>
          ELSE EmptyMap)
      @@ (IF Has(actualOptions.RumSettings)
          THEN "rum_settings" :>
                  <<("is_enabled" :> Get(actualOptions.RumSettings).IsEnabled)
                    @@ Entry("application_id", Get(actualOptions.RumSettings).ApplicationId)
                    @@ Entry("client_token_id", Get(actualOptions.RumSettings).ClientTokenId)>>
          ELSE EmptyMap)>>

\* GetAllowFailure() and its like: false when the member is not there.
GetOrFalse(o) == IF Has(o) THEN Get(o) ELSE FALSE

\* One step of the api_step loop of updateSyntheticsAPITestLocalState, with
\* the request, the flags and the retry of the step.
flattenAPIStep(step) ==
    IF Has(step.SyntheticsAPITestStep)
    THEN LET s           == Get(step.SyntheticsAPITestStep)
             stepRequest == s.Request
         IN  [name      |-> s.Name,
              subtype   |-> s.Subtype,
              assertion |-> buildTerraformAssertions(s.Assertions),
              request_definition |->
                 <<(IF s.Subtype = "grpc" THEN "http_version" :> "any" ELSE EmptyMap)
                   @@ [allow_insecure   |-> GetOrFalse(stepRequest.AllowInsecure),
                       follow_redirects |-> GetOrFalse(stepRequest.FollowRedirects)]
                   @@ buildTerraformTestRequestKeys(stepRequest, 1)>>,
              allow_failure |-> GetOrFalse(s.AllowFailure),
              is_critical   |-> GetOrFalse(s.IsCritical)]
             @@ (IF Has(s.Retry)
                 THEN "retry" :> <<Entry("count", Get(s.Retry).Count)
                                   @@ Entry("interval", Get(s.Retry).Interval)>>
                 ELSE EmptyMap)
    ELSE IF Has(step.SyntheticsAPIWaitStep)
    THEN [name    |-> Get(step.SyntheticsAPIWaitStep).Name,
          subtype |-> Get(step.SyntheticsAPIWaitStep).Subtype,
          value   |-> Get(step.SyntheticsAPIWaitStep).Value]
    ELSE EmptyMap

\* Requests, options and steps as the API returns them: members absent,
\* present with the zero value of their type, present with another value.
StringFields ==
    {"Body", "BodyType", "Method", "Url", "Host", "DnsServer", "Servername", "Message",
     "CallType", "Service", "HttpVersion", "MonitorName"}

BoolFields ==
    {"NoSavingResponseBody", "ShouldTrackHops", "PersistCookies", "AllowInsecure",
     "FollowRedirects", "AcceptSelfSigned", "CheckCertificateRevocation", "NoScreenshot",
     "IgnoreServerCertificateError", "DisableCsp", "DisableCors"}

ListFields == {"CertificateDomains", "RestrictedRoles"}

ValueOf(field, zero) ==
    CASE field \in StringFields -> IF zero THEN "" ELSE "v"
      [] field \in BoolFields   -> ~zero
      [] field \in ListFields   -> IF zero THEN <<>> ELSE <<"v">>
      [] field = "Port"         ->
            IF zero THEN [SyntheticsTestRequestNumericalPort |-> Set(0),
                          SyntheticsTestRequestVariablePort  |-> <<>>]
            ELSE [SyntheticsTestRequestNumericalPort |-> <<>>,
                  SyntheticsTestRequestVariablePort  |-> Set("{{ PORT }}")]
      [] OTHER                  -> IF zero THEN 0 ELSE 30

RequestFields ==
    {RequestKeys[n][2] : n \in 1..Len(RequestKeys)} \cup {"AllowInsecure", "FollowRedirects"}

ReturnedRequests ==
    { [field \in RequestFields \cup {"CompressedProtoFile"} |->
          IF field \in present THEN Set(ValueOf(field, zero)) ELSE <<>>] :
        present \in {{}, RequestFields, {"Body", "Timeout", "NoSavingResponseBody"},
                     {"Method", "Port", "AllowInsecure"}},
        zero \in BOOLEAN }

OptionsFields == {OptionsKeys[n][2] : n \in 1..Len(OptionsKeys)}

ReturnedRetries ==
    {<<>>} \cup { Set([Count |-> count, Interval |-> interval]) :
                     count \in {<<>>, <<0>>, <<2>>}, interval \in {<<>>, <<0>>, <<300>>} }

ReturnedOptions ==
    { [field \in OptionsFields |->
          IF field \in present THEN Set(ValueOf(field, zero)) ELSE <<>>]
      @@ [Retry          |-> retry,
          MonitorOptions |-> IF zero THEN Set([RenotifyInterval |-> monitor]) ELSE <<>>,
          Scheduling     |-> IF zero THEN <<>>
                             ELSE Set([Timeframes |-> <<>>, Timezone |-> "UTC"]),
          Ci             |-> IF zero THEN <<>> ELSE Set([ExecutionRule |-> "blocking"]),
          RumSettings    |-> IF zero THEN <<>>
                             ELSE Set([IsEnabled |-> TRUE, ApplicationId |-> monitor,
                                       ClientTokenId |-> <<>>])] :
        present \in {{}, OptionsFields, {"TickEvery", "FollowRedirects"}},
        zero \in BOOLEAN, retry \in ReturnedRetries, monitor \in {<<>>, <<0>>} }

ReturnedAPISteps ==
    { [SyntheticsAPITestStep |->
          Set([Name |-> "step", Subtype |-> subtype, Assertions |-> <<>>, Request |-> request,
               AllowFailure |-> flag, IsCritical |-> flag, Retry |-> retry]),
       SyntheticsAPIWaitStep |-> <<>>] :
        subtype \in {"http", "grpc"}, request \in ReturnedRequests,
        flag \in {<<>>, <<FALSE>>, <<TRUE>>}, retry \in {<<>>, Set([Count |-> <<>>, Interval |-> <<0>>])} }
    \cup { [SyntheticsAPITestStep |-> <<>>,
            SyntheticsAPIWaitStep |-> Set([Name |-> "step", Subtype |-> "wait", Value |-> 1])] }

CallBuildTerraformTestRequest ==
    Returns("buildTerraformTestRequest",
            buildTerraformTestRequestKeys(Argument, 1) @@ buildTerraformTestRequest(Argument),
            <<>>)

CallBuildTerraformTestOptions ==
    Returns("buildTerraformTestOptions", buildTerraformTestOptions(Argument), <<>>)

CallFlattenAPIStep == Returns("flattenAPIStep", flattenAPIStep(Argument), <<>>)

\* The body of the request.  d.GetOk answers ok for a string that is not empty.
MethodsWithoutBody == {"GET", "HEAD", "DELETE"}

\* A rule that knows nothing of the http version.
buildDatadogAPITestBodyAnyVersion(method, body, httpVersion) ==
    IF body # "" /\ ~(method # "" /\ method \in MethodsWithoutBody)
    THEN <<body>>
    ELSE <<>>

\* buildDatadogSyntheticsAPITest, the request of the test.
buildDatadogAPITestBody(method, body, httpVersion) ==
    LET methodOk      == method # ""
        bodyOk        == body # ""
        httpVersionOk == httpVersion # ""
    IN  IF bodyOk /\ body # ""
        THEN IF /\ methodOk
                /\ method \in MethodsWithoutBody
                /\ (~httpVersionOk \/ httpVersion # "http1")
             THEN <<>>
             ELSE <<body>>
        ELSE <<>>

\* buildDatadogSyntheticsAPITest, the request of an http step.
buildDatadogAPIStepBody(method, body, httpVersion) ==
    IF body # ""
    THEN IF method \in MethodsWithoutBody /\ httpVersion # "http1"
         THEN <<>>
         ELSE <<body>>
    ELSE <<>>

\* The warning that goes with a body left out.
bodyLog(method, body, Body) ==
    IF body # "" /\ ~Has(Body) THEN <<Line("WARN", "body")>> ELSE <<>>

BodyArguments ==
    [method      : {"", "GET", "HEAD", "DELETE", "POST", "PUT", "PATCH", "OPTIONS"},
     body        : {"", "{}"},
     httpVersion : {"", "http1", "http2", "any"}]

CallBuildDatadogAPITestBody ==
    LET Body == buildDatadogAPITestBody(Argument.method, Argument.body, Argument.httpVersion)
    IN  Returns("buildDatadogAPITestBody", [Body |-> Body],
                bodyLog(Argument.method, Argument.body, Body))

CallBuildDatadogAPIStepBody ==
    LET Body == buildDatadogAPIStepBody(Argument.method, Argument.body, Argument.httpVersion)
    IN  Returns("buildDatadogAPIStepBody", [Body |-> Body],
                bodyLog(Argument.method, Argument.body, Body))

InitTranslate ==
    \/ \E value \in CompressedProtoFiles : Calling("decompressAndDecodeValue", value)
    \/ \E requestBasicAuth \in BasicAuthMaps \cup UnsupportedBasicAuthMaps :
            Calling("buildDatadogBasicAuth", requestBasicAuth)
    \/ \E attr \in ListsUpTo(StrayAssertionMaps, MaxAssertions) :
            Calling("buildDatadogAssertions", attr)
    \/ \E attr \in ListsUpTo(APIStepMaps, MaxSteps) : Calling("buildDatadogAPISteps", attr)
    \/ \E variables \in VariableArguments :
            \/ Calling("buildTerraformConfigVariables", variables)
            \/ Calling("localBrowserVariables", variables)
    \/ \E i \in ConvertibleValues : Calling("convertToString", i)
    \/ \E key \in StepParamsKeys : Calling("convertStepParamsKey", key)
    \/ \E stepMap \in BrowserStepMaps : Calling("buildDatadogBrowserStep", stepMap)
    \/ \E returned \in FlattenArguments : Calling("flattenBrowserStep", returned)
    \/ \E files \in BodyFileArguments : Calling("buildTerraformBodyFiles", files)
    \/ \E request \in ReturnedRequests : Calling("buildTerraformTestRequest", request)
    \/ \E actualOptions \in ReturnedOptions :
            Calling("buildTerraformTestOptions", actualOptions)
    \/ \E step \in ReturnedAPISteps : Calling("flattenAPIStep", step)
    \/ \E diff \in ElementDiffs : Calling("elementDiffSuppressFunc", diff)
    \/ \E request \in BodyArguments : \/ Calling("buildDatadogAPITestBody", request)
                                       \/ Calling("buildDatadogAPIStepBody", request)
    \/ \E requestClientCertificate \in ListsUpTo(CertificateMaps, 1) :
            Calling("buildDatadogSyntheticsBrowserTest", requestClientCertificate)

NextTranslate ==
    \/ CallReadProtoFile
    \/ CallBuildDatadogBasicAuth
    \/ CallBuildDatadogAssertions
    \/ CallBuildDatadogAPISteps
    \/ CallBuildTerraformConfigVariables
    \/ CallLocalBrowserVariables
    \/ CallConvertToString
    \/ CallConvertStepParamsKey
    \/ CallBuildDatadogBrowserStep
    \/ CallFlattenBrowserStep
    \/ CallBuildTerraformBodyFiles
    \/ CallBuildTerraformTestRequest
    \/ CallBuildTerraformTestOptions
    \/ CallFlattenAPIStep
    \/ CallElementDiffSuppressFunc
    \/ CallBuildDatadogAPITestBody
    \/ CallBuildDatadogAPIStepBody
    \/ CallBuildDatadogSyntheticsBrowserTestRequest

SpecTranslate == InitTranslate /\ [][NextTranslate]_vars

(* ---------------------------------------------------------------------- *)
(* resourceDatadogSyntheticsTestCreate: the create call and the polling    *)
(* of the created test under retry.RetryContext.                           *)
(* ---------------------------------------------------------------------- *)
MaxChecks == 5

\* What a call of the API answers: an error or none, the status of the HTTP
\* response (0 when there is no response), and whether the decoded object
\* holds something the client could not parse.
Answer(err, status, unparsed) == [err |-> err, status |-> status, unparsed |-> unparsed]

Answers ==
    {Answer(FALSE, 200, FALSE), Answer(FALSE, 200, TRUE)}
    \cup {Answer(TRUE, status, FALSE) : status \in {0, 400, 403, 404, 429, 500, 503}}

PublicIds == {"abc-def-ghi", "jkl-mno-pqr"}

\* A retry function that takes every error for "not created yet".
IsRetryableAnyError(answer) == answer.err

\* httpResponseGet != nil && httpResponseGet.StatusCode == 404
IsRetryable(answer) == answer.err /\ answer.status = 404

\* The outcome of one run of the function given to retry.RetryContext.
RetryFunc(answer) ==
    IF answer.err
    THEN IF IsRetryable(answer) THEN "RetryableError" ELSE "NonRetryableError"
    ELSE IF answer.unparsed THEN "NonRetryableError"
    ELSE "nil"

Polling(testType) ==
    /\ pc = "create"
    /\ poll = [pc |-> "create", testType |-> testType, created |-> <<>>, answers |-> <<>>,
               diags |-> <<>>, id |-> <<>>, publicId |-> "", got |-> "", stateDiags |-> <<>>]
    /\ call = <<>> /\ result = <<>> /\ log = <<>>
    /\ config = EmptyConfig /\ d = EmptyConfig /\ syntheticsTest = <<>> /\ actual = <<>>
    /\ builtFrom = <<>> /\ firstState = <<>>

InitCreate == \E testType \in {"api", "browser", "mobile"} : Polling(testType)

PollStep(next) ==
    /\ poll' = next
    /\ UNCHANGED <<pc, config, d, syntheticsTest, actual, builtFrom, firstState, call, result,
                   log>>

\* A test type that is neither api nor browser: no call is made.
CreateUnrecognized ==
    /\ poll.pc = "create"
    /\ poll.testType \notin {"api", "browser"}
    /\ PollStep([poll EXCEPT !.pc = "done", !.diags = <<"unrecognized synthetics test type">>])

\* CreateSyntheticsAPITest / CreateSyntheticsBrowserTest and the checks of
\* their answer.
CreateCall ==
    /\ poll.pc = "create"
    /\ poll.testType \in {"api", "browser"}
    /\ \E answer \in Answers, publicId \in PublicIds :
        PollStep([poll EXCEPT
            !.created  = <<answer>>,
            !.publicId = IF answer.err THEN "" ELSE publicId,
            !.pc      = IF answer.err \/ answer.unparsed THEN "done" ELSE "polling",
            !.diags   = IF answer.err THEN <<"error creating synthetics test">>
                        ELSE IF answer.unparsed THEN <<"unparsed object">>
                        ELSE <<>>])

\* An id set as soon as the retry function has answered for good.
SetIdWhateverTheError(err, publicId) ==
    IF err = "RetryableError" THEN <<>> ELSE <<publicId>>

\* if err != nil { return diag.FromErr(err) }; d.SetId(response.GetPublicId())
SetId(err, publicId) == IF err = "nil" THEN <<publicId>> ELSE <<>>

\* One run of the retry function: GetAPITest / GetBrowserTest of the created
\* test, whose answer carries the public id when there is no error.  On nil
\* the id is set and the state written from the answer, which may fail.
StatusCheck ==
    /\ poll.pc = "polling"
    /\ Len(poll.answers) < MaxChecks
    /\ \E answer \in Answers, stateDiags \in {<<>>, <<"error writing state">>} :
        LET got == IF answer.err THEN "" ELSE poll.publicId
        IN  PollStep([poll EXCEPT
                !.answers = Append(@, answer),
                !.got     = got,
                !.pc      = IF RetryFunc(answer) = "RetryableError" THEN "polling" ELSE "done",
                !.diags   = IF RetryFunc(answer) = "NonRetryableError" THEN <<"error">>
                            ELSE <<>>,
                !.id      = SetId(RetryFunc(answer), got),
                !.stateDiags = IF RetryFunc(answer) = "nil" THEN stateDiags ELSE <<>>])

\* d.Timeout(schema.TimeoutCreate) elapses between two runs.
Deadline ==
    /\ poll.pc = "polling"
    /\ PollStep([poll EXCEPT !.pc = "done", !.diags = <<"timeout">>])

NextCreate == CreateUnrecognized \/ CreateCall \/ StatusCheck \/ Deadline

SpecCreate == InitCreate /\ [][NextCreate]_vars

(* ---------------------------------------------------------------------- *)
(* resourceDatadogSyntheticsTestRead: the generic GetTest, the GetAPITest   *)
(* or GetBrowserTest that follows, and the state written from its answer.   *)
(* ---------------------------------------------------------------------- *)
MaxReads == 2

Reading(publicId) ==
    /\ pc = "read"
    /\ poll = [pc |-> "GetTest", publicId |-> publicId, id |-> publicId, reads |-> 1,
               type |-> "", first |-> <<>>, second |-> <<>>, diags |-> <<>>]
    /\ call = <<>> /\ result = <<>> /\ log = <<>>
    /\ config = EmptyConfig /\ d = EmptyConfig /\ syntheticsTest = <<>> /\ actual = <<>>
    /\ builtFrom = <<>> /\ firstState = <<>>

InitRead == \E publicId \in PublicIds : Reading(publicId)

\* httpresp != nil && httpresp.StatusCode == 404, httpresp being the response
\* of GetTest: the second call drops its response.
IsGone(httpresp) == httpresp.status = 404

\* GetTest and the checks of its answer.
GetTest ==
    /\ poll.pc = "GetTest"
    /\ \E answer \in Answers, type \in {"api", "browser"} :
        PollStep([poll EXCEPT
            !.first = <<answer>>,
            !.type  = IF answer.err THEN "" ELSE type,
            !.pc    = IF answer.err \/ answer.unparsed THEN "done" ELSE "GetTypedTest",
            !.id    = IF answer.err /\ IsGone(answer) THEN "" ELSE @,
            !.diags = IF answer.err
                      THEN IF IsGone(answer) THEN <<>> ELSE <<"error getting synthetics test">>
                      ELSE IF answer.unparsed THEN <<"unparsed object">>
                      ELSE <<>>])

\* GetBrowserTest or GetAPITest, the checks of its answer, and the state
\* written from it, which may fail.
GetTypedTest ==
    /\ poll.pc = "GetTypedTest"
    /\ \E answer \in Answers, stateDiags \in {<<>>, <<"error writing state">>} :
        LET httpresp == Get(poll.first)
        IN  PollStep([poll EXCEPT
                !.second = <<answer>>,
                !.pc     = "done",
                !.id     = IF answer.err /\ IsGone(httpresp) THEN "" ELSE @,
                !.diags  = IF answer.err
                           THEN IF IsGone(httpresp) THEN <<>>
                                ELSE <<"error getting synthetics test">>
                           ELSE IF answer.unparsed THEN <<"unparsed object">>
                           ELSE stateDiags])

\* The next refresh of a resource that is still in the state.
ReadAgain ==
    /\ poll.pc = "done"
    /\ poll.id # ""
    /\ poll.reads < MaxReads
    /\ PollStep([poll EXCEPT !.pc = "GetTest", !.reads = @ + 1, !.type = "",
                             !.first = <<>>, !.second = <<>>, !.diags = <<>>])

NextRead == GetTest \/ GetTypedTest \/ ReadAgain

SpecRead == InitRead /\ [][NextRead]_vars

IsEncodingOfSomeText(value) == \E t \in Texts : value = compressAndEncodeValue(t)

\* C11: a compressed proto file that is not base64 of a zlib stream makes the
\* read return an error diagnostic; it is never answered with text as if the
\* decoding had succeeded.
C11_DecodeFailureIsFatal ==
    Returned("decompressAndDecodeValue") /\ ~IsEncodingOfSomeText(Argument) =>
        /\ Get(result).outcome = "returned"
        /\ Get(result).diags # <<>>

SupportedSchemes == {"web", "sigv4", "ntlm", "oauth-client", "oauth-rop", "digest"}

\* C12: buildDatadogBasicAuth given a type outside the six schemes returns
\* the credential object with all six variants absent, logs exactly one
\* warning, and returns normally.
C12_UnsupportedSchemeIsEmptyAndWarned ==
    Returned("buildDatadogBasicAuth") /\ Argument.type \notin SupportedSchemes =>
        /\ Get(result).outcome = "returned"
        /\ DOMAIN Get(result).value = BasicAuthVariants
        /\ \A variant \in BasicAuthVariants : Get(result).value[variant] = <<>>
        /\ Len(log) = 1
        /\ log[1].level = "WARN"
        /\ log[1].about = Argument.type

\* The type "bearer" with a user name and a password given.
C12_Witness ==
    /\ Returned("buildDatadogBasicAuth")
    /\ Argument.type = "bearer"
    /\ Argument.username = "user"
    /\ Argument.password = "S3cret"
    /\ Get(result).value = EmptySyntheticsBasicAuth
    /\ Len(log) = 1

LinesAbout(field) == {i \in 1..Len(log) : log[i].about = field /\ log[i].level = "WARN"}

GivenWith(attr, field, variants) ==
    {i \in 1..Len(attr) : /\ ExpectedAssertionVariant(attr[i]) \in variants
                          /\ attr[i][field] # <<>>}

WithoutStrayFields(m) ==
    LET variant == ExpectedAssertionVariant(m)
    IN  [key \in DOMAIN m |->
            IF key \in {"type", "operator"} \cup AssertionVariantKeys(variant)
            THEN m[key] ELSE EmptyAssertionMap[key]]

KnownStepSubtypes == {"", "http", "grpc", "wait"}

UnknownSteps(attr) == {i \in 1..Len(attr) : attr[i].subtype \notin KnownStepSubtypes}

\* C13: an api_step whose subtype is not one of "", http, grpc, wait is
\* built as a step with neither variant set, a warning is logged for it, and
\* the steps around it are built all the same.
C13_UnknownSubtypeIsZeroStepAndWarned ==
    Returned("buildDatadogAPISteps") =>
        LET attr  == Argument
            steps == Get(result).value
        IN  /\ Get(result).outcome = "returned"
            /\ Len(steps) = Len(attr)
            /\ \A i \in 1..Len(attr) :
                IF i \in UnknownSteps(attr)
                THEN NonePopulated(steps[i])
                ELSE \E variant \in DOMAIN steps[i] :
                        /\ OnlyPopulated(steps[i], variant)
                        /\ Get(steps[i][variant]).Name = attr[i].name
            /\ Cardinality({j \in 1..Len(log) : log[j] = Line("WARN", "subtype")})
                = Cardinality(UnknownSteps(attr))

SecureAt(variables) ==
    {i \in 1..Len(variables) : /\ variables[i].Type # "global"
                               /\ variables[i].Secure = <<TRUE>>}

PriorAt(i, key) == IF i \in 1..Len(Argument.prior) THEN Argument.prior[i][key] ELSE ""

\* C15, config variables: at every index where the model returns a secure
\* variable that is not global, the state is written with the example and
\* the pattern the prior configuration holds at that index.
C15_ConfigVariablesCarriedForward ==
    Returned("buildTerraformConfigVariables") =>
        /\ Get(result).outcome = "returned"
        /\ \A i \in SecureAt(Argument.returned) :
            /\ Get(result).value[i]["example"] = PriorAt(i, "example")
            /\ Get(result).value[i]["pattern"] = PriorAt(i, "pattern")

\* C15, browser variables: a secure browser variable whose example (pattern)
\* the model does not carry is written with the prior value at its index.
C15_BrowserVariablesCarriedForward ==
    Returned("localBrowserVariables") =>
        \A i \in 1..Len(Argument.returned) :
            LET variable == Argument.returned[i]
            IN  variable.Secure = <<TRUE>> =>
                    /\ variable.Example = <<>> =>
                            Get(result).value[i]["example"] = PriorAt(i, "example")
                    /\ variable.Pattern = <<>> =>
                            Get(result).value[i]["pattern"] = PriorAt(i, "pattern")

\* C15: both carry-forward rules together.
C15_SecretCarryForward ==
    C15_ConfigVariablesCarriedForward /\ C15_BrowserVariablesCarriedForward

\* No sign but a minus, no leading zero, no trailing fraction zero, no bare point.
IsShortestDecimal(s) ==
    LET u == Unsigned(s)
    IN  /\ s = <<>> \/ s[1] # "+"
        /\ Len(IntPart(u)) > 0
        /\ Len(IntPart(u)) > 1 => IntPart(u)[1] # "0"
        /\ DotPositions(u) # {} => /\ FracPart(u) # <<>>
                                   /\ FracPart(u)[Len(FracPart(u))] # "0"

\* C16: convertToString gives "true"/"false" for a boolean, the decimal text
\* for an integer, the shortest decimal text that reads back as the same
\* number for a float, the string itself for a string, and the JSON text for
\* every other kind of value, which is never the empty string.
C16_ConvertToStringTotalLossless ==
    Returned("convertToString") =>
        LET i == Argument
            s == Get(result)
        IN  /\ i.kind = "bool" =>
                s = (IF i.bool THEN <<"t", "r", "u", "e">> ELSE <<"f", "a", "l", "s", "e">>)
            /\ i.kind = "int" =>
                AtoiOk(s) /\ Atoi(s) = i.int /\ IsShortestDecimal(s)
            /\ i.kind = "float64" =>
                ParseFloatOk(s) /\ ParseFloat(s) = i /\ IsShortestDecimal(s)
            /\ i.kind = "string" => s = i.str
            /\ i.kind \notin {"bool", "int", "float64", "string"} =>
                /\ s # <<>>
                /\ s = jsonMarshal(i)
                /\ i.kind = "nil" => s = <<Token("null")>>
                /\ i.kind = "slice" => s[1] = Token("[") /\ s[Len(s)] = Token("]")
                /\ i.kind = "map" => s[1] = Token("{") /\ s[Len(s)] = Token("}")

\* A map is returned as its JSON text, members in key order.
C16_Witness ==
    /\ Returned("convertToString")
    /\ Argument = MapValue("b" :> StringValue(StrAbc) @@ "a" :> NilValue)
    /\ Get(result) = <<Token("{"), NameToken("a"), Token(":"), Token("null"), Token(","),
                       NameToken("b"), Token(":"), StringToken(StrAbc), Token("}")>>

C16_WitnessFloat ==
    /\ Returned("convertToString")
    /\ Argument = ParseFloat(StrDecimal)
    /\ Get(result) = <<"1", ".", "5">>

StepParamsKeyPairs ==
    {<<"click_type", "clickType">>, <<"playing_tab_id", "playingTabId">>,
     <<"subtest_public_id", "subtestPublicId">>, <<"with_click", "withClick">>}

\* C17: converting a key twice gives the key back; click_type, playing_tab_id,
\* subtest_public_id and with_click are converted to clickType, playingTabId,
\* subtestPublicId and withClick and these back; any other key is returned
\* unchanged.
C17_StepParamsKeyTableIsInvolution ==
    Returned("convertStepParamsKey") =>
        LET key       == Argument
            converted == Get(result)
        IN  /\ convertStepParamsKey(converted) = key
            /\ \A p \in StepParamsKeyPairs : (key = p[1] => converted = p[2])
            /\ \A p \in StepParamsKeyPairs : (key = p[2] => converted = p[1])
            /\ (\A p \in StepParamsKeyPairs : key # p[1] /\ key # p[2]) => converted = key

\* The camel-cased name of a special key is converted back.
C17_Witness ==
    /\ Returned("convertStepParamsKey")
    /\ Argument = "withClick"
    /\ Get(result) = "with_click"

Range(s) == {s[n] : n \in 1..Len(s)}

BuiltStep == Get(result).step

EmittedParams == Get(BuiltStep.Params).members

WrittenParams == Get(result).localStep.params[1]

\* The model params a build emits carry no key but the converted keys of the
\* step type.
C18_BuildOnlyKeysOfStepType ==
    (Returned("buildDatadogBrowserStep") /\ Get(result).outcome = "returned") =>
        DOMAIN EmittedParams \subseteq
            {convertStepParamsKey(key) : key \in Range(getParamsKeysForStepType(Argument.type))}

\* The state params a read writes carry no key but the keys of the step type,
\* the user locator of an element of the step type counted with the element.
C18_FlattenOnlyKeysOfStepType ==
    (Returned("flattenBrowserStep") /\ Get(result).outcome = "returned") =>
        LET keys == Range(getParamsKeysForStepType(Argument.step.Type))
        IN  DOMAIN WrittenParams \subseteq
                keys \cup (IF "element" \in keys THEN {"element_user_locator"} ELSE {})

\* C18: for a browser step of type T, the model params that build emits and
\* the state params that flatten writes contain no key outside
\* getParamsKeysForStepType(T).
C18_OnlyKeysOfStepType == C18_BuildOnlyKeysOfStepType /\ C18_FlattenOnlyKeysOfStepType

ConfiguredStepParams == Argument.params[1]

\* The user locator of the element_user_locator block of the configuration.
ConfiguredUserLocator ==
    LET block == ConfiguredStepParams.element_user_locator.elems[1].members
    IN  MapValue("failTestOnCannotLocate" :> block.fail_test_on_cannot_locate
                 @@ "values" :> SliceValue(<<block.value.elems[1]>>))

\* Build sets the userLocator member and leaves every other member of the
\* parsed element as it was.
C19_BuildSetsOnlyUserLocator ==
    (/\ Returned("buildDatadogBrowserStep")
     /\ Get(result).outcome = "returned"
     /\ ConfiguredStepParams.element_user_locator.elems # <<>>) =>
        LET parsed  == jsonUnmarshal(ConfiguredStepParams.element.str)
            emitted == EmittedParams.element.members
        IN  /\ emitted.userLocator = ConfiguredUserLocator
            /\ (parsed.ok /\ parsed.value.kind = "map") =>
                    /\ DOMAIN emitted = DOMAIN parsed.value.members \cup {"userLocator"}
                    /\ \A k \in DOMAIN parsed.value.members \ {"userLocator"} :
                            emitted[k] = parsed.value.members[k]

\* Flatten writes the element text whole, user locator included, beside the
\* element_user_locator it takes out of it.
C19_FlattenKeepsElementText ==
    (/\ Returned("flattenBrowserStep")
     /\ Get(result).outcome = "returned"
     /\ "element_user_locator" \in DOMAIN WrittenParams) =>
        LET returned == Get(Argument.step.Params).members.element
        IN  /\ "element" \in DOMAIN WrittenParams
            /\ WrittenParams.element.kind = "string"
            /\ IF Argument.force_element_update
               THEN WrittenParams.element.str = Argument.element
               ELSE /\ jsonUnmarshal(WrittenParams.element.str).ok
                    /\ jsonUnmarshal(WrittenParams.element.str).value = returned

\* C19: with an element_user_locator block, build sets only the userLocator
\* member of the element parsed from the element text, every other member
\* keeping its value in the emitted params; on flatten, taking the user
\* locator out does not alter the element text written to state.
C19_UserLocatorMergeKeepsElement == C19_BuildSetsOnlyUserLocator /\ C19_FlattenKeepsElementText

\* An element of two members is emitted with three.
C19_Witness ==
    /\ Returned("buildDatadogBrowserStep")
    /\ Get(result).outcome = "returned"
    /\ ConfiguredStepParams.element = StringValue(ElementPlain)
    /\ ConfiguredStepParams.element_user_locator.elems # <<>>
    /\ DOMAIN EmittedParams.element.members = {"url", "targetOuterHTML", "userLocator"}
    /\ EmittedParams.element.members.url = StringValue(StrAbc)

\* A returned element with a user locator is written whole and the locator
\* beside it.
C19_WitnessFlatten ==
    /\ Returned("flattenBrowserStep")
    /\ Get(result).outcome = "returned"
    /\ ~Argument.force_element_update
    /\ "element_user_locator" \in DOMAIN WrittenParams
    /\ Get(Argument.step.Params).members.element = GetMetadataFromJSON(ElementLocated)
    /\ WrittenParams.element_user_locator.elems[1].members.value.elems[1].members.value
         = StringValue(Str42)

IsNotFound(answer) == answer.err /\ answer.status = 404

IsSuccess(answer) == ~answer.err /\ ~answer.unparsed

\* C20: after a successful create call every status check but the last has
\* answered 404; polling goes on only as long as all answers are 404; a
\* successful check is the last one and ends Create with the id set and no
\* error; a check that fails otherwise than by 404 is the last one and ends
\* Create with an error.
C20_PollingRetriesOnlyNotFound ==
    LET a == poll.answers
    IN  /\ a # <<>> => /\ Has(poll.created)
                       /\ IsSuccess(Get(poll.created))
        /\ \A n \in 1..(Len(a) - 1) : IsNotFound(a[n])
        /\ poll.pc = "polling" => \A n \in 1..Len(a) : IsNotFound(a[n])
        /\ (a # <<>> /\ IsSuccess(a[Len(a)])) =>
                poll.pc = "done" /\ poll.diags = <<>> /\ Has(poll.id)
        /\ (a # <<>> /\ ~IsSuccess(a[Len(a)]) /\ ~IsNotFound(a[Len(a)])) =>
                poll.pc = "done" /\ poll.diags # <<>> /\ ~Has(poll.id)

\* Two checks answer 404 and the third succeeds.
C20_Witness ==
    /\ poll.pc = "done"
    /\ poll.diags = <<>>
    /\ Len(poll.answers) = 3
    /\ IsNotFound(poll.answers[1]) /\ IsNotFound(poll.answers[2])
    /\ IsSuccess(poll.answers[3])

\* A check answers 500 after one 404 and Create fails.
C20_WitnessFatal ==
    /\ poll.pc = "done"
    /\ poll.diags # <<>>
    /\ Len(poll.answers) = 2
    /\ IsNotFound(poll.answers[1])
    /\ poll.answers[2] = Answer(TRUE, 500, FALSE)

\* The build and flatten functions whose result tells how the call ended.
BuildAndFlattenCalls ==
    {"buildTerraformConfigVariables", "buildTerraformBodyFiles",
     "buildDatadogSyntheticsBrowserTest", "buildDatadogBrowserStep", "flattenBrowserStep"}

\* C21: no call of a build or flatten function ends in a runtime panic,
\* whatever the model returned, the prior state (empty or shorter than the
\* returned list included) and the schema-valid configuration.
C21_NoRuntimePanic ==
    (pc = "return" /\ Has(call) /\ Get(call).fn \in BuildAndFlattenCalls) =>
        Get(result).outcome # "panic"

\* The three places the claim names, each taken alone.
C21_NoPanicInConfigVariables ==
    Returned("buildTerraformConfigVariables") => Get(result).outcome # "panic"

C21_NoPanicInBodyFiles ==
    Returned("buildTerraformBodyFiles") => Get(result).outcome # "panic"

C21_NoPanicInBrowserCertificate ==
    Returned("buildDatadogSyntheticsBrowserTest") => Get(result).outcome # "panic"

\* C22: after buildTerraformBodyFiles(actual, old) every map of the prior
\* list old has the keys and values it had before the call.
C22_PriorListUnchanged ==
    (Returned("buildTerraformBodyFiles") /\ Get(result).outcome = "returned") =>
        Get(result).oldLocalBodyFiles = Argument.old

\* C23: once the state has been written from a model read, an attribute the
\* model does not carry (here the basic auth and the client certificate of
\* the request) is absent from the state and does not keep its prior value.
C23_StateRebuiltFromModel ==
    (pc = "applied" /\ Has(actual)) =>
        LET request == Get(actual).Config.Request
        IN  /\ ~Has(request.BasicAuth) => d.request_basicauth = <<>>
            /\ ~Has(request.Certificate) => d.request_client_certificate = <<>>

\* The keys of a table are in the map exactly for the members the model has,
\* each with the value of its member.
EmittedByPresence(table, model, map) ==
    \A n \in 1..Len(table) :
        /\ table[n][1] \in DOMAIN map <=> Has(model[table[n][2]])
        /\ (Has(model[table[n][2]]) /\ table[n][1] # "port") =>
                map[table[n][1]] = Get(model[table[n][2]])

\* A member of a nested object is a key of the block exactly when it is there.
NestedByPresence(map, block, key, o) ==
    block \in DOMAIN map => (key \in DOMAIN map[block][1] <=> Has(o))

C24_RequestByPresence ==
    Returned("buildTerraformTestRequest") =>
        EmittedByPresence(RequestKeys, Argument, Get(result))

C24_OptionsByPresence ==
    Returned("buildTerraformTestOptions") =>
        LET map == Get(result)[1]
        IN  /\ EmittedByPresence(OptionsKeys, Argument, map)
            /\ "retry" \in DOMAIN map <=> Has(Argument.Retry)
            /\ "monitor_options" \in DOMAIN map <=> Has(Argument.MonitorOptions)
            /\ "rum_settings" \in DOMAIN map <=> Has(Argument.RumSettings)
            /\ Has(Argument.Retry) =>
                    /\ NestedByPresence(map, "retry", "count", Get(Argument.Retry).Count)
                    /\ NestedByPresence(map, "retry", "interval", Get(Argument.Retry).Interval)

C24_StepByPresence ==
    (Returned("flattenAPIStep") /\ Has(Argument.SyntheticsAPITestStep)) =>
        LET step == Get(Argument.SyntheticsAPITestStep)
            map  == Get(result)
        IN  /\ "allow_failure" \in DOMAIN map <=> Has(step.AllowFailure)
            /\ "is_critical" \in DOMAIN map <=> Has(step.IsCritical)
            /\ "retry" \in DOMAIN map <=> Has(step.Retry)
            /\ NestedByPresence(map, "request_definition", "allow_insecure",
                                step.Request.AllowInsecure)
            /\ NestedByPresence(map, "request_definition", "follow_redirects",
                                step.Request.FollowRedirects)
            /\ step.Subtype # "grpc" =>
                    EmittedByPresence(RequestKeys, step.Request, map.request_definition[1])

\* C24: for the test request, the test options and each API step, flatten
\* emits a key exactly when the model carries the member: a member present
\* with a zero value is emitted, a member absent from the model is not
\* emitted with a zero value.
C24_EmittedByPresence ==
    C24_RequestByPresence /\ C24_OptionsByPresence /\ C24_StepByPresence

CreateReturned == poll.pc = "done"

CreateCallSucceeded == Has(poll.created) /\ IsSuccess(Get(poll.created))

\* C25: when Create returns an error of the create call or of the polling,
\* the id is unset; the id is set only after a successful create call and a
\* successful status check, and it is the public id that check returned.
C25_IdSetOnlyAfterSuccessfulCheck ==
    /\ (CreateReturned /\ poll.diags # <<>>) => ~Has(poll.id)
    /\ Has(poll.id) =>
            /\ CreateCallSucceeded
            /\ poll.answers # <<>>
            /\ IsSuccess(poll.answers[Len(poll.answers)])
            /\ Get(poll.id) = poll.got
            /\ Get(poll.id) = poll.publicId

\* The second check succeeds and the id is that of the created test.
C25_Witness ==
    /\ CreateReturned
    /\ Len(poll.answers) = 2
    /\ IsNotFound(poll.answers[1])
    /\ poll.id = <<"jkl-mno-pqr">>

\* The create call succeeded and polling ended with an error: no id.
C25_WitnessError ==
    /\ CreateReturned
    /\ CreateCallSucceeded
    /\ poll.diags = <<"error">>
    /\ ~Has(poll.id)

\* C29: whenever Create returns after the remote create call succeeded, the
\* id is set.
C29_NoUntrackedRemoteTest ==
    (CreateReturned /\ Has(poll.created) /\ ~Get(poll.created).err) => Has(poll.id)

ReadReturned == poll.pc = "done"

\* The test is gone: GetTest fails with 404, or GetTest succeeds and the
\* call for the typed test fails with 404.
Vanished ==
    \/ Has(poll.first) /\ IsNotFound(Get(poll.first))
    \/ Has(poll.second) /\ IsNotFound(Get(poll.second))

ReadFailed ==
    \/ Has(poll.first) /\ ~IsSuccess(Get(poll.first))
    \/ Has(poll.second) /\ ~IsSuccess(Get(poll.second))

\* C26: when either call of Read fails with 404, Read empties the id and
\* returns no error; on any other failure it returns an error and leaves the
\* id as it was.
C26_VanishedResourceRemoved ==
    ReadReturned =>
        /\ Vanished => poll.id = "" /\ poll.diags = <<>>
        /\ (ReadFailed /\ ~Vanished) => poll.id = poll.publicId /\ poll.diags # <<>>

\* The half of it that concerns GetTest alone.
C26_VanishedAtGetTest ==
    (ReadReturned /\ ~Has(poll.second)) =>
        /\ Vanished => poll.id = "" /\ poll.diags = <<>>
        /\ (ReadFailed /\ ~Vanished) => poll.id = poll.publicId /\ poll.diags # <<>>

BodyAllowed(request) ==
    /\ request.body # ""
    /\ ~(request.method \in {"GET", "HEAD", "DELETE"} /\ request.httpVersion # "http1")

\* C27: the request of an API test and of an http step carries the configured
\* body exactly when the body is not empty and it is not the case that the
\* method is GET, HEAD or DELETE while the http version is other than http1;
\* the two rules give the same answer for every method, body and version.
C27_BodyOnlyIfMethodAllows ==
    (Returned("buildDatadogAPITestBody") \/ Returned("buildDatadogAPIStepBody")) =>
        /\ Has(Get(result).Body) <=> BodyAllowed(Argument)
        /\ Has(Get(result).Body) => Get(Get(result).Body) = Argument.body
        /\ buildDatadogAPITestBody(Argument.method, Argument.body, Argument.httpVersion)
             = buildDatadogAPIStepBody(Argument.method, Argument.body, Argument.httpVersion)

\* A GET over http1 keeps its body.
C27_Witness ==
    /\ Returned("buildDatadogAPITestBody")
    /\ Argument = [method |-> "GET", body |-> "{}", httpVersion |-> "http1"]
    /\ Get(result).Body = <<"{}">>

\* A GET over another version loses it, with a warning.
C27_WitnessDropped ==
    /\ Returned("buildDatadogAPIStepBody")
    /\ Argument = [method |-> "GET", body |-> "{}", httpVersion |-> "any"]
    /\ Get(result).Body = <<>>
    /\ log = <<Line("WARN", "body")>>

\* The element the backend returned for the step, if it returned one.
ReturnedElement == Get(Argument.step.Params).members.element

C28_FlattenKeepsForcedElement ==
    (/\ Returned("flattenBrowserStep")
     /\ Get(result).outcome = "returned"
     /\ "element" \in DOMAIN Get(Argument.step.Params).members) =>
        /\ "element" \in DOMAIN WrittenParams
        /\ WrittenParams.element.kind = "string"
        /\ IF Argument.force_element_update
           THEN WrittenParams.element.str = Argument.element
           ELSE /\ jsonUnmarshal(WrittenParams.element.str).ok
                /\ jsonUnmarshal(WrittenParams.element.str).value = ReturnedElement

C28_DiffSuppressedUnlessForced ==
    (Returned("elementDiffSuppressFunc") /\ Argument.old # Argument.new) =>
        (Get(result) <=> (Argument.old # <<>> /\ ~Argument.force_element_update))

\* C28: on flatten of a browser step whose force_element_update is true in the
\* prior state, the element written is the element of the prior state and not
\* the one the backend returned; when it is not true the backend's element is
\* written; and a difference between old and new element is suppressed exactly
\* when the old value is not empty and force_element_update is not true.
C28_ElementPreservation == C28_FlattenKeepsForcedElement /\ C28_DiffSuppressedUnlessForced

\* The prior state holds one element, the backend returns another, and the
\* prior one is written.
C28_Witness ==
    /\ Returned("flattenBrowserStep")
    /\ Get(result).outcome = "returned"
    /\ Argument.force_element_update
    /\ Argument.element = ElementPlain
    /\ "element" \in DOMAIN Get(Argument.step.Params).members
    /\ ReturnedElement = GetMetadataFromJSON(ElementLocated)
    /\ WrittenParams.element = StringValue(ElementPlain)

\* A changed element is let through when the update is forced.
C28_WitnessDiff ==
    /\ Returned("elementDiffSuppressFunc")
    /\ Argument = [old |-> ElementPlain, new |-> ElementLocated, force_element_update |-> TRUE]
    /\ Get(result) = FALSE

\* C30: buildDatadogBasicAuth selects the variant of a known scheme only when
\* the guard fields of the scheme are not empty: type web with an empty
\* username, and type sigv4 with an empty access_key or secret_key, yield the
\* empty credential object and the "unrecognized basic auth type" warning;
\* ntlm, oauth-client, oauth-rop and digest yield their variant whatever
\* their fields hold.
C30_GuardFieldsSelectVariant ==
    (Returned("buildDatadogBasicAuth") /\ Argument.type \in SupportedSchemes) =>
        IF \/ Argument.type = "web" /\ Argument.username = ""
           \/ Argument.type = "sigv4" /\ (Argument.access_key = "" \/ Argument.secret_key = "")
        THEN /\ Get(result).value = EmptySyntheticsBasicAuth
             /\ Len(log) = 1
             /\ log[1].level = "WARN"
             /\ log[1].text = "unrecognized basic auth type"
             /\ log[1].about = Argument.type
        ELSE /\ OnlyPopulated(Get(result).value, ExpectedBasicAuthVariant(Argument.type))
             /\ Get(Get(result).value[ExpectedBasicAuthVariant(Argument.type)]).Type
                  = Argument.type
             /\ log = <<>>

\* A sigv4 map with a secret key and no access key: no variant, one warning.
C30_Witness ==
    /\ Returned("buildDatadogBasicAuth")
    /\ Argument.type = "sigv4"
    /\ Argument.access_key = ""
    /\ Argument.secret_key = "S3cret"
    /\ Get(result).value = EmptySyntheticsBasicAuth
    /\ Len(log) = 1
    /\ log[1].about = "sigv4"

\* An ntlm map with every credential empty yields its variant.
C30_WitnessNTLM ==
    /\ Returned("buildDatadogBasicAuth")
    /\ Argument.type = "ntlm"
    /\ Argument.username = ""
    /\ Argument.password = ""
    /\ Has(Get(result).value.SyntheticsBasicAuthNTLM)
    /\ log = <<>>

====
